---- MODULE Spec2Model ----
(***************************************************************************)
(* Model of the OpenCode adapter of nanoclaw's agent runner:               *)
(*   container/agent-runner/src/sdk-adapter/claude-adapter.ts              *)
(* The module covers the filesystem mailbox (shouldClose, drainIpcInput,   *)
(* waitForIpcMessage), the event normaliser (normalizeEvent) and the       *)
(* multi-turn loop (OpenCodeAdapter.runMultiTurnQuery) with its in-turn    *)
(* mailbox poller (pollIpcDuringQuery).                                    *)
(*                                                                         *)
(* Strings are sequences of atomic pieces, so that concatenation and       *)
(* join('\n') are sequence operations: 'first' is <<"first">> and          *)
(* 'first\nsecond' is <<"first", "\n", "second">>.  The empty string is    *)
(* <<>> (falsy in the source).                                             *)
(***************************************************************************)
EXTENDS Integers, Sequences, FiniteSets, TLC

(***************************************************************************)
(* Bounds of the model.                                                    *)
(***************************************************************************)
MaxTurns == 2     \* prompts sent by one runMultiTurnQuery call
MaxEvents == 2    \* events of the session consumed in one turn before its idle
MaxWrites == 2    \* files an external writer puts into the input directory
NumStems == 2     \* distinct .json file names (stems 1..NumStems)
MaxTextLen == 3   \* pieces of one streamed text part
MaxUpdates == 3   \* message.part.updated events sent for one text part
HostTimeout == 2  \* ticks of the controller's timeout
MaxTime == 5      \* ticks the clock of the controller is followed for
MaxItems == 2     \* records and log lines one subprocess writes to stdout
MaxYields == 3    \* messages the container runner takes from the adapter
MaxEncoded == 1   \* records of any shape one writeOutput caller encodes
MaxCallers == 2 \* method calls of one adapter in flight at once
MaxServers == 3 \* createOpencodeServer calls in one behaviour
MaxTools == 3     \* entries of one allowedTools list

(***************************************************************************)
(* Values.                                                                 *)
(***************************************************************************)
None == "none"                 \* undefined / absent
Null == <<"(null)">>           \* result: null
NoServer == 0                  \* this.serverClose is undefined
Own == "ses_own"               \* session.id of the session being driven
Other == "ses_other"           \* some other session of the same server
MsgId == "msg_1"               \* a message id
NL == "\n"
InitialPrompt == <<"hello">>

(***************************************************************************)
(* The input directory.  A file name is <<stem, ext>>; String.sort orders  *)
(* the .json names of the model by stem.  A file's content is what         *)
(* JSON.parse makes of it: not parseable, or an object with a type and a   *)
(* text.                                                                   *)
(***************************************************************************)
JsonNames == {<<s, "json">> : s \in 1..NumStems}
Names == JsonNames \cup {<<1, "tmp">>}

Absent == [valid |-> FALSE, type |-> "absent", text |-> <<>>]
Malformed == [valid |-> FALSE, type |-> "malformed", text |-> <<>>]
Texts == {<<"first">>, <<"second">>, <<>>}
Contents == {Malformed}
            \cup {[valid |-> TRUE, type |-> "message", text |-> t] : t \in Texts}
            \cup {[valid |-> TRUE, type |-> "task", text |-> <<"first">>]}

\* what an external writer puts into a file of the given name, C being the
\* contents of message files
WritableContents(n, C) == IF n[2] = "json" THEN C ELSE {Malformed}

VARIABLES
  pc,               \* where the generator is suspended
  files,            \* input directory: Names -> Contents \cup {Absent}
  sentinel,         \* the _close file exists
  writes,           \* files written so far by external writers
  abortSignal,      \* options.abortSignal.aborted
  prompt,           \* let prompt
  turnCount,        \* let turnCount
  lastMessageId,    \* let lastMessageId
  turnCompleted,    \* let turnCompleted (of the current loop iteration)
  closeRequested,   \* let closeRequested (of the current loop iteration)
  ipcPolling,       \* let ipcPolling (of the current loop iteration)
  pendingMessages,  \* const pendingMessages (of the current loop iteration)
  stalePollers,     \* pollers of earlier iterations whose ipcPolling is still true
  sent,             \* prompts passed to client.session.prompt, in order
  promptFrom,       \* where the last prompt came from
  seen,             \* types of the session's events consumed in this turn, in order
  out,              \* messages yielded since the last prompt was sent
  initCount,        \* system/init messages yielded by this call
  returnedAt,       \* which return statement ended the generator
  partText,         \* text stream check: backend's text of the part
  partMode,         \* text stream check: kinds of update sent for the part
  updates,          \* text stream check: updates sent for the part
  emitted,          \* text stream check: concatenation of yielded content
  abortAttempts,    \* calls of client.session.abort made by abortSession
  abortFailed,      \* the last client.session.abort call threw
  resumeOf,         \* which backend session the driven Session object names
  resumeAt,         \* the resumeAt argument of the resumeSession call
  stdout,           \* pipe from the subprocess: pieces written, not yet read
  emittedItems,     \* what the subprocess has written to stdout, in order
  readCount,        \* pieces of stdout the controller has read
  splitDecoded,     \* a record was decoded whose JSON line came in two reads
  procAlive,        \* the subprocess has not exited
  buffer,           \* decoder: pieces of the line that is not complete yet
  expectPayload,    \* decoder: the last complete line was the start marker
  decoded,          \* records the controller has decoded, in order
  callbacks,        \* decoded records whose streaming callback has not run
  relayed,          \* records the streaming callback was invoked with
  lastSessionId,    \* controller: latest known session id
  now,              \* time since the subprocess was started, in ticks
  deadline,         \* controller: the time at which the timeout fires
  lastRecordAt,     \* time at which the last record was decoded (0: none)
  hostState,        \* controller: "running", "stopping" or "resolved"
  kills,            \* forced terminations the controller has issued
  resolution,       \* what the controller's promise resolved with
  yielded,          \* container runner: messages taken from the adapter
  runnerSession,    \* container runner: session id put into the records
  completed,        \* runQuery: let completed
  env,              \* process.env of the host and of the container
  groupModel,       \* group.containerConfig.openCodeModel
  launched,         \* the environment has been set and the programs started
  hostConfig,       \* what evaluating src/config.ts gave
  adapter,          \* what createAdapter returned, and from which selection
  selection,        \* openCodeModel of resolveGroupBackendSelection(group)
  serverUp,         \* the entrypoint's OpenCode server answers
  serversStarted,   \* createOpencodeServer calls made by the adapter
  clientCreated,    \* createOpencodeClient was called
  createOutcome,    \* how createSession ended
  served,           \* backend: prompts of the session it has answered to the end
  emittedNow,       \* backend: events emitted for the prompt it is working on
  delivered,        \* events in the subscribed stream the loop has not taken yet
  lost,             \* events of the session emitted while no stream was subscribed
  unlinkFails,      \* per .json name: how many unlinkSync calls in a row fail now
  unlinkThrew,      \* an unlinkSync call of a drain has thrown
  allowedTools,     \* the argument of the mapAllowedToolsToOpenCode call
  toolMapping,      \* what the call returned
  lastEvent,        \* the event the for-await loop took from the stream last
  removedStale,     \* the unlinkSync of line 1078 found a _close file
  onOutput,         \* controller: a streaming callback was supplied
  initialized,      \* adapter: this.initialized
  serverClose,      \* adapter: the server this.serverClose closes, or NoServer
  callers,          \* adapter: the method calls in flight, one per caller
  liveServers,      \* the servers started and not closed
  spawned,          \* createOpencodeServer calls made so far
  startedSinceDispose \* createOpencodeServer calls since the last dispose

loopVars == <<pc, files, sentinel, writes, abortSignal, prompt, turnCount,
              lastMessageId, turnCompleted, closeRequested, ipcPolling,
              pendingMessages, stalePollers, sent, promptFrom, out, seen, initCount,
              returnedAt>>
textVars == <<partText, partMode, updates, emitted>>
abortVars == <<abortAttempts, abortFailed>>
resumeVars == <<resumeOf, resumeAt>>
hostVars == <<stdout, emittedItems, readCount, splitDecoded, procAlive, buffer,
              expectPayload, decoded, callbacks, relayed, lastSessionId, now,
              deadline, lastRecordAt, hostState, kills, resolution>>
runnerVars == <<yielded, runnerSession>>
queryVars == <<completed>>
startupVars == <<env, groupModel, launched, hostConfig, adapter, selection,
                 serverUp, serversStarted, clientCreated, createOutcome>>
backendVars == <<served, emittedNow, delivered, lost>>
faultVars == <<unlinkFails, unlinkThrew>>
toolVars == <<allowedTools, toolMapping>>
streamVars == <<lastEvent>>
staleVars == <<removedStale>>
legacyVars == <<onOutput>>
initVars == <<initialized, serverClose, callers, liveServers, spawned,
              startedSinceDispose>>
vars == <<pc, files, sentinel, writes, abortSignal, prompt, turnCount,
          lastMessageId, turnCompleted, closeRequested, ipcPolling,
          pendingMessages, stalePollers, sent, promptFrom, out, seen, initCount,
          returnedAt, partText, partMode, updates, emitted,
          abortAttempts, abortFailed, resumeOf, resumeAt,
          stdout, emittedItems, readCount, splitDecoded, procAlive, buffer,
          expectPayload,
          decoded, callbacks, relayed, lastSessionId, now, deadline,
          lastRecordAt, hostState, kills, resolution, yielded, runnerSession,
          completed, env, groupModel, launched, hostConfig, adapter,
          selection, serverUp, serversStarted, clientCreated, createOutcome,
          served, emittedNow, delivered, lost, unlinkFails, unlinkThrew,
          allowedTools, toolMapping, lastEvent, removedStale, onOutput,
          initialized, serverClose, callers, liveServers, spawned,
          startedSinceDispose>>

(***************************************************************************)
(* Sequence helpers.                                                       *)
(***************************************************************************)
\* Array.prototype.join(sep) on an array of strings
RECURSIVE JoinWith(_, _)
JoinWith(ss, sep) ==
  IF ss = <<>> THEN <<>>
  ELSE IF Len(ss) = 1 THEN ss[1]
  ELSE ss[1] \o <<sep>> \o JoinWith(Tail(ss), sep)

Last(s) == s[Len(s)]

(***************************************************************************)
(* Mailbox: shouldClose, drainIpcInput.                                    *)
(***************************************************************************)
\* shouldClose() without the unlink
ShouldCloseKeepsFile(exists) == [returns |-> exists, sentinel |-> exists]

\* shouldClose(): the value returned and whether _close exists afterwards
ShouldClose(exists) == [returns |-> exists, sentinel |-> FALSE]

\* readdirSync(...).filter(f => f.endsWith('.json'))
ListedSet(f) == {n \in Names : f[n] # Absent /\ n[2] = "json"}

\* a sort in descending file name order
RECURSIVE SortNamesDescending(_)
SortNamesDescending(S) ==
  IF S = {} THEN <<>>
  ELSE LET m == CHOOSE n \in S : \A o \in S : n[1] >= o[1]
       IN <<m>> \o SortNamesDescending(S \ {m})

\* .sort(): ascending file name
RECURSIVE SortNames(_)
SortNames(S) ==
  IF S = {} THEN <<>>
  ELSE LET m == CHOOSE n \in S : \A o \in S : n[1] <= o[1]
       IN <<m>> \o SortNames(S \ {m})

Listed(f) == SortNames(ListedSet(f))

\* body of the for loop over one file, lines 245-254: is its text pushed
FilePushes(c) == c.valid /\ c.type = "message" /\ c.text # <<>>

\* a loop body whose catch block does not unlink
FileUnlinkedIfParsed(c) == c.valid

\* body of the for loop over one file, lines 245-254: is the file unlinked
\* (line 247 after a successful parse, line 253 in the catch block)
FileUnlinked(c) == TRUE

\* a loop body that pushes the text before it unlinks the file
PushedBeforeUnlink(n) == TRUE

\* line 247: fs.unlinkSync(filePath) returns, so that line 248 is reached
FirstUnlinkSucceeds(n) == unlinkFails[n] = 0

\* the file is gone after the loop body: by line 247, or by line 253 after
\* line 247 or JSON.parse has thrown
UnlinkSucceeds(n, c) ==
  IF c.valid THEN unlinkFails[n] <= 1 ELSE unlinkFails[n] = 0

RECURSIVE DrainTexts(_, _)
DrainTexts(f, names) ==
  IF names = <<>> THEN <<>>
  ELSE (IF FilePushes(f[Head(names)]) /\ FirstUnlinkSucceeds(Head(names))
        THEN <<f[Head(names)].text>> ELSE <<>>)
       \o DrainTexts(f, Tail(names))

\* drainIpcInput(): the returned messages
DrainIpcInput(f) == DrainTexts(f, Listed(f))

\* drainIpcInput(): the directory afterwards
DrainRemaining(f) ==
  [n \in Names |->
     IF n \in ListedSet(f) /\ FileUnlinked(f[n]) /\ UnlinkSucceeds(n, f[n])
     THEN Absent ELSE f[n]]

(***************************************************************************)
(* Backend events.  Every event carries the same fields; a field the       *)
(* backend did not set is None (strings), FALSE or <<>>.                   *)
(*   sessionID  properties.sessionID                                       *)
(*   infoId     properties.info.id                                         *)
(*   role, completed, errorName   properties.info of message.updated       *)
(*   hasError, errName, errMessage   properties.error of session.error     *)
(*   partType, partId, text, delta, toolStatus   message.part.updated      *)
(*   statusType  properties.status.type of session.status                  *)
(***************************************************************************)
BaseEvent ==
  [type |-> None, sessionID |-> None, infoId |-> None, role |-> None,
   completed |-> FALSE, errorName |-> None, hasError |-> FALSE,
   errName |-> None, errMessage |-> <<>>, partType |-> None,
   partId |-> None, text |-> <<>>, delta |-> <<>>, toolStatus |-> None,
   statusType |-> None]

TerminalTypes == {"session.error", "session.timeout", "session.aborted"}

SessionCreatedEvents ==
  {[BaseEvent EXCEPT !.type = "session.created", !.infoId = i] :
     i \in {Own, Other}}

MessageUpdatedEvents ==
  {[BaseEvent EXCEPT !.type = "message.updated", !.sessionID = Own,
                     !.infoId = MsgId, !.role = m[1], !.completed = m[2],
                     !.errorName = m[3]] :
     m \in {<<"assistant", FALSE, None>>, <<"assistant", TRUE, None>>,
            <<"assistant", TRUE, "APIError">>}}
  \cup
  {[BaseEvent EXCEPT !.type = "message.updated", !.infoId = i,
                     !.role = "assistant", !.completed = TRUE] :
     i \in {MsgId, None}}

TextPartEvents ==
  {[BaseEvent EXCEPT !.type = "message.part.updated", !.sessionID = s,
                     !.partType = "text", !.partId = "part-1",
                     !.text = <<"Hello">>] : s \in {Own, Other, None}}

IdleEvents ==
  {[BaseEvent EXCEPT !.type = "session.idle", !.sessionID = s] :
     s \in {Own, Other}}

SessionErrorEvents ==
  {[BaseEvent EXCEPT !.type = "session.error", !.sessionID = Own,
                     !.hasError = TRUE, !.errName = "APIError",
                     !.errMessage = <<"Something failed">>],
   [BaseEvent EXCEPT !.type = "session.error", !.sessionID = Other,
                     !.hasError = TRUE, !.errName = "APIError",
                     !.errMessage = <<"Something failed">>]}

OtherTerminalEvents ==
  {[BaseEvent EXCEPT !.type = t, !.sessionID = Own, !.hasError = TRUE,
                     !.errMessage = <<"No activity">>] :
     t \in {"session.timeout", "session.aborted"}}

\* the events the backend may deliver during a turn of the loop
LoopEvents ==
  SessionCreatedEvents \cup MessageUpdatedEvents \cup TextPartEvents
  \cup IdleEvents \cup SessionErrorEvents \cup OtherTerminalEvents

(***************************************************************************)
(* AgentMessage.  content, message and result are strings; Undefined is    *)
(* the value of a field the code leaves unset.  Token usage and cost are   *)
(* copied through by the code and are left out.                            *)
(***************************************************************************)
Undefined == <<None>>

Msg(type, subtype) ==
  [type |-> type, subtype |-> subtype, session_id |-> None, id |-> None,
   content |-> Undefined, message |-> Undefined, result |-> Undefined]

\* x || y on strings
OrElse(x, y) == IF x # <<>> THEN x ELSE y

\* normalizeEvent(event, sessionId)
NormalizeEvent(e, sessionId) ==
  CASE e.type = "session.created" ->
         <<[Msg("system", "init") EXCEPT
              !.session_id = e.infoId,
              !.message = <<"Session created: ", e.infoId>>]>>
    [] e.type = "message.updated" ->
         IF e.role = "assistant" /\ e.completed
         THEN IF e.errorName # None
              THEN <<Msg("result", IF e.errorName = "MessageAbortedError"
                                   THEN "abort" ELSE "error")>>
              ELSE <<Msg("result", "success")>>
         ELSE <<>>
    [] e.type = "message.part.updated" ->
         (CASE e.partType = "text" ->
                 <<[Msg("text", None) EXCEPT
                      !.content = OrElse(e.delta, e.text), !.id = e.partId]>>
            [] e.partType = "tool" ->
                 (IF e.toolStatus \in {"pending", "running"}
                  THEN <<[Msg("tool_use", e.toolStatus) EXCEPT !.id = e.partId]>>
                  ELSE IF e.toolStatus \in {"completed", "error"}
                  THEN <<[Msg("tool_result", e.toolStatus) EXCEPT !.id = e.partId]>>
                  ELSE <<>>)
            [] e.partType = "compaction" ->
                 <<[Msg("system", "compacted") EXCEPT !.session_id = sessionId]>>
            [] OTHER -> <<>>)
    [] e.type = "session.status" ->
         <<[Msg("system", "status") EXCEPT
              !.session_id = e.sessionID,
              !.message = IF e.statusType = "retry"
                          THEN <<"Retrying (attempt ", "): ">>
                          ELSE Undefined]>>
    [] e.type = "session.idle" -> <<>>
    [] e.type = "session.compacted" ->
         <<[Msg("system", "compacted") EXCEPT !.session_id = e.sessionID]>>
    [] e.type = "session.error" ->
         <<[Msg("system", "error") EXCEPT
              !.session_id = e.sessionID,
              !.message = IF e.hasError
                          THEN <<e.errName, ": ">>
                               \o OrElse(e.errMessage, <<"Unknown error">>)
                          ELSE <<"Unknown error">>]>>
    [] e.type = "permission.updated" -> <<Msg("permission", None)>>
    [] OTHER -> <<>>

\* const eventSessionId = props.sessionID ?? info?.id
EventSessionId(e) == IF e.sessionID # None THEN e.sessionID ELSE e.infoId

\* a filter that reads properties.sessionID only
IsForeignBySessionIdOnly(e, sessionId) ==
  e.sessionID # None /\ e.sessionID # sessionId

\* if (eventSessionId && eventSessionId !== session.id) continue
IsForeign(e, sessionId) ==
  EventSessionId(e) # None /\ EventSessionId(e) # sessionId

\* event.type === 'session.idle' && properties.sessionID === session.id
IsOwnIdle(e, sessionId) == e.type = "session.idle" /\ e.sessionID = sessionId

CountInit(ms) ==
  Cardinality({i \in 1..Len(ms) : ms[i].type = "system" /\ ms[i].subtype = "init"})

(***************************************************************************)
(* runMultiTurnQuery.  pc is the point where the generator is suspended:   *)
(*   "init"           not started                                          *)
(*   "prompted"       awaiting client.session.prompt (line 1106)           *)
(*   "events"         awaiting the next event of the stream (line 1176)    *)
(*   "yieldedResult"  suspended at the yield of the turn's result (1227)   *)
(*   "wait"           inside waitForIpcMessage, between two polls          *)
(*   "aborting"       awaiting abortSession after the abort signal was read *)
(*   "done"           returned                                             *)
(* Timer callbacks and external writers run only while it is suspended.    *)
(***************************************************************************)
SubscribeErrorMessages ==
  <<[Msg("system", "error") EXCEPT
       !.message = <<"Failed to subscribe to event stream">>],
    [Msg("result", "error") EXCEPT
       !.result = <<"Failed to subscribe to event stream">>]>>

AbortResult ==
  [Msg("result", "abort") EXCEPT !.result = <<"Session aborted by user">>]

\* lines 1227-1231: the result yielded when the event loop of a turn ends
TurnResult == Msg("result", "success")

InitMessage(sessionId) == [Msg("system", "init") EXCEPT !.session_id = sessionId]

Init ==
  /\ pc = "init"
  /\ files = [n \in Names |-> Absent]
  /\ sentinel \in BOOLEAN
  /\ writes = 0
  /\ abortSignal = FALSE
  /\ prompt = InitialPrompt
  /\ turnCount = 0
  /\ lastMessageId = None
  /\ turnCompleted = FALSE
  /\ closeRequested = FALSE
  /\ ipcPolling = FALSE
  /\ pendingMessages = <<>>
  /\ stalePollers = 0
  /\ sent = <<>>
  /\ promptFrom = None
  /\ seen = <<>>
  /\ out = <<>>
  /\ initCount = 0
  /\ returnedAt = None
  /\ partText = <<>>
  /\ partMode = None
  /\ updates = 0
  /\ emitted = <<>>
  /\ abortAttempts = 0
  /\ abortFailed = FALSE
  /\ resumeOf = "created"
  /\ resumeAt = Undefined
  /\ stdout = <<>>
  /\ emittedItems = <<>>
  /\ readCount = 0
  /\ splitDecoded = FALSE
  /\ procAlive = TRUE
  /\ buffer = <<>>
  /\ expectPayload = FALSE
  /\ decoded = <<>>
  /\ callbacks = <<>>
  /\ relayed = <<>>
  /\ lastSessionId = None
  /\ now = 0
  /\ deadline = HostTimeout
  /\ lastRecordAt = 0
  /\ hostState = "running"
  /\ kills = 0
  /\ resolution = [status |-> None, result |-> Null, newSessionId |-> None,
                   error |-> None]
  /\ yielded = <<>>
  /\ runnerSession = "s1"
  /\ completed = FALSE
  /\ env = [NANOCLAW_SDK_BACKEND |-> Undefined,
            NANOCLAW_OPENCODE_MODEL |-> Undefined,
            NANOCLAW_MODEL |-> Undefined]
  /\ groupModel = Undefined
  /\ launched = FALSE
  /\ hostConfig = [state |-> "unloaded", SDK_BACKEND |-> None,
                   OPENCODE_MODEL |-> Undefined]
  /\ adapter = [kind |-> None, from |-> None]
  /\ selection = Undefined
  /\ serverUp = FALSE
  /\ serversStarted = 0
  /\ clientCreated = FALSE
  /\ createOutcome = None
  /\ served = 0
  /\ emittedNow = 0
  /\ delivered = <<>>
  /\ lost = <<>>
  /\ unlinkFails = [n \in JsonNames |-> 0]
  /\ unlinkThrew = FALSE
  /\ lastEvent = BaseEvent
  /\ removedStale = FALSE
  /\ onOutput = TRUE
  /\ initialized = FALSE
  /\ serverClose = NoServer
  /\ callers = [c \in 1..MaxCallers |->
                  [at |-> "idle", method |-> None, server |-> NoServer]]
  /\ liveServers = {}
  /\ spawned = 0
  /\ startedSinceDispose = 0
  /\ allowedTools = <<>>
  /\ toolMapping = [called |-> FALSE, tools |-> {}, mcpServers |-> <<>>,
                    allowAllMcp |-> FALSE]

\* lines 1102-1118: turnCount++ and client.session.prompt with the prompt p
BeginTurn(p, from) ==
  /\ turnCount < MaxTurns
  /\ promptFrom' = from
  /\ seen' = <<>>
  /\ turnCount' = turnCount + 1
  /\ prompt' = p
  /\ sent' = Append(sent, p)
  /\ out' = <<>>
  /\ pc' = "prompted"

\* a start that leaves a _close file of an earlier run in place
StartKeepsSentinel ==
  /\ pc = "init"
  /\ BeginTurn(InitialPrompt, "initial")
  /\ UNCHANGED <<files, sentinel, writes, abortSignal, lastMessageId,
                 turnCompleted, closeRequested, ipcPolling, pendingMessages,
                 stalePollers, initCount, returnedAt>>

\* lines 1067-1118: stale sentinel cleanup, then the first turn
Start ==
  /\ pc = "init"
  /\ sentinel' = FALSE
  /\ BeginTurn(InitialPrompt, "initial")
  /\ UNCHANGED <<files, writes, abortSignal, lastMessageId, turnCompleted,
                 closeRequested, ipcPolling, pendingMessages, stalePollers,
                 initCount, returnedAt>>

\* lines 1120-1173: init on the first turn, subscribe, new poller closure
AfterPrompt ==
  /\ pc = "prompted"
  /\ LET inits == IF turnCount = 1 THEN <<InitMessage(Own)>> ELSE <<>>
     IN \E stream \in BOOLEAN :
          IF stream
          THEN /\ out' = out \o inits
               /\ initCount' = initCount + Len(inits)
               /\ stalePollers' = stalePollers + (IF ipcPolling THEN 1 ELSE 0)
               /\ turnCompleted' = FALSE
               /\ closeRequested' = FALSE
               /\ ipcPolling' = TRUE
               /\ pendingMessages' = <<>>
               /\ pc' = "events"
               /\ UNCHANGED returnedAt
          ELSE /\ out' = out \o inits \o SubscribeErrorMessages
               /\ initCount' = initCount + Len(inits)
               /\ pc' = "done"
               /\ returnedAt' = "subscribe-failed"
               /\ UNCHANGED <<stalePollers, turnCompleted, closeRequested,
                              ipcPolling, pendingMessages>>
  /\ UNCHANGED <<files, sentinel, writes, abortSignal, prompt, turnCount,
                 lastMessageId, sent, promptFrom, seen>>

\* lines 1176-1231: one iteration of the for-await loop on event e; on the
\* session's own idle the loop breaks and the turn's result is yielded
EventLoopStep(e) ==
  /\ pc = "events"
  /\ abortSignal \/ IsForeign(e, Own) \/ IsOwnIdle(e, Own) \/ Len(seen) < MaxEvents
  /\ IF abortSignal
     THEN /\ ipcPolling' = FALSE
          /\ pc' = "aborting"
          /\ UNCHANGED <<lastMessageId, turnCompleted, initCount, seen, out,
                         returnedAt>>
     ELSE IF IsForeign(e, Own)
     THEN UNCHANGED <<ipcPolling, out, seen, pc, returnedAt, lastMessageId,
                      turnCompleted, initCount>>
     ELSE /\ lastMessageId' = IF e.type = "message.updated" /\ e.infoId # None
                              THEN e.infoId ELSE lastMessageId
          /\ initCount' = initCount + CountInit(NormalizeEvent(e, Own))
          /\ seen' = Append(seen, e.type)
          /\ UNCHANGED returnedAt
          /\ IF IsOwnIdle(e, Own)
             THEN /\ turnCompleted' = TRUE
                  /\ ipcPolling' = FALSE
                  /\ out' = Append(out \o NormalizeEvent(e, Own), TurnResult)
                  /\ pc' = "yieldedResult"
             ELSE /\ out' = out \o NormalizeEvent(e, Own)
                  /\ UNCHANGED <<turnCompleted, ipcPolling, pc>>
  /\ UNCHANGED <<files, sentinel, writes, abortSignal, prompt, turnCount,
                 closeRequested, pendingMessages, stalePollers, sent, promptFrom>>

\* an abortSession without the try/catch: a failed client.session.abort
\* call ends the generator with the error, before the abort result
AbortSessionPropagates ==
  /\ pc = "aborting"
  /\ abortAttempts' = abortAttempts + 1
  /\ abortFailed' \in BOOLEAN
  /\ IF abortFailed'
     THEN out' = out /\ returnedAt' = "abort-threw"
     ELSE out' = Append(out, AbortResult) /\ returnedAt' = "aborted"
  /\ pc' = "done"
  /\ UNCHANGED <<files, sentinel, writes, abortSignal, prompt, turnCount,
                 lastMessageId, turnCompleted, closeRequested, ipcPolling,
                 pendingMessages, stalePollers, sent, promptFrom, seen,
                 initCount>>

\* a generator that yields the abort result without calling abortSession
AbortSessionNotAttempted ==
  /\ pc = "aborting"
  /\ out' = Append(out, AbortResult)
  /\ pc' = "done"
  /\ returnedAt' = "aborted"
  /\ UNCHANGED <<abortAttempts, abortFailed>>
  /\ UNCHANGED <<files, sentinel, writes, abortSignal, prompt, turnCount,
                 lastMessageId, turnCompleted, closeRequested, ipcPolling,
                 pendingMessages, stalePollers, sent, promptFrom, seen,
                 initCount>>

\* lines 1180-1186: await this.abortSession(session) (lines 983-1005: one
\* client.session.abort call whose error is caught and logged), then the
\* abort result is yielded and the generator returns
AbortSession ==
  /\ pc = "aborting"
  /\ abortAttempts' = abortAttempts + 1
  /\ abortFailed' \in BOOLEAN
  /\ out' = Append(out, AbortResult)
  /\ pc' = "done"
  /\ returnedAt' = "aborted"
  /\ UNCHANGED <<files, sentinel, writes, abortSignal, prompt, turnCount,
                 lastMessageId, turnCompleted, closeRequested, ipcPolling,
                 pendingMessages, stalePollers, sent, promptFrom, seen,
                 initCount>>

\* line 1176 ends because the stream ends: lines 1224-1231
StreamEnd ==
  /\ pc = "events"
  /\ out' = Append(out, TurnResult)
  /\ pc' = "yieldedResult"
  /\ UNCHANGED <<files, sentinel, writes, abortSignal, prompt, turnCount,
                 lastMessageId, turnCompleted, closeRequested, ipcPolling,
                 pendingMessages, stalePollers, sent, promptFrom, seen,
                 initCount, returnedAt>>

\* a poll() that drains before it looks for the close sentinel
WaitPollStepMessagesFirst ==
  IF DrainIpcInput(files) # <<>>
  THEN /\ files' = DrainRemaining(files)
       /\ BeginTurn(JoinWith(DrainIpcInput(files), NL), "mailbox")
       /\ UNCHANGED <<sentinel, returnedAt>>
  ELSE IF ShouldClose(sentinel).returns
  THEN /\ sentinel' = ShouldClose(sentinel).sentinel
       /\ files' = DrainRemaining(files)
       /\ pc' = "done"
       /\ returnedAt' = "close-received"
       /\ UNCHANGED <<prompt, turnCount, sent, promptFrom, out, seen>>
  ELSE /\ files' = DrainRemaining(files)
       /\ pc' = "wait"
       /\ UNCHANGED <<sentinel, returnedAt, prompt, turnCount, sent,
                      promptFrom, out, seen>>

\* waitForIpcMessage, one call of poll(): lines 269-280, and what the loop
\* does with the value it resolves to: lines 1250-1256
WaitPollStep ==
  IF ShouldClose(sentinel).returns
  THEN /\ sentinel' = ShouldClose(sentinel).sentinel
       /\ pc' = "done"
       /\ returnedAt' = "close-received"
       /\ UNCHANGED <<files, prompt, turnCount, sent, promptFrom, out, seen>>
  ELSE /\ files' = DrainRemaining(files)
       /\ UNCHANGED <<sentinel, returnedAt>>
       /\ IF DrainIpcInput(files) # <<>>
          THEN BeginTurn(JoinWith(DrainIpcInput(files), NL), "mailbox")
          ELSE /\ pc' = "wait"
               /\ UNCHANGED <<prompt, turnCount, sent, promptFrom, out, seen>>

\* lines 1233-1257: after the turn's result has been taken by the consumer
AfterResult ==
  /\ pc = "yieldedResult"
  /\ IF closeRequested
     THEN /\ pc' = "done"
          /\ returnedAt' = "close-during-turn"
          /\ UNCHANGED <<files, sentinel, prompt, turnCount, sent,
                         promptFrom, out, seen, pendingMessages>>
     ELSE IF pendingMessages # <<>>
     THEN /\ BeginTurn(JoinWith(pendingMessages, NL), "pending")
          /\ pendingMessages' = <<>>
          /\ UNCHANGED <<files, sentinel, returnedAt>>
     ELSE /\ WaitPollStep
          /\ UNCHANGED pendingMessages
  /\ UNCHANGED <<writes, abortSignal, lastMessageId, turnCompleted,
                 closeRequested, ipcPolling, stalePollers, initCount>>

\* setTimeout(poll, IPC_POLL_MS) fires inside waitForIpcMessage
WaitPoll ==
  /\ pc = "wait"
  /\ WaitPollStep
  /\ UNCHANGED <<writes, abortSignal, lastMessageId, turnCompleted,
                 closeRequested, ipcPolling, pendingMessages, stalePollers,
                 initCount>>

\* pollIpcDuringQuery of the current loop iteration: lines 1158-1172
PollIpcDuringQuery ==
  /\ ipcPolling
  /\ pc # "init"
  /\ IF ShouldClose(sentinel).returns
     THEN /\ sentinel' = ShouldClose(sentinel).sentinel
          /\ closeRequested' = TRUE
          /\ ipcPolling' = FALSE
          /\ UNCHANGED <<files, pendingMessages>>
     ELSE /\ pendingMessages' = pendingMessages \o DrainIpcInput(files)
          /\ files' = DrainRemaining(files)
          /\ UNCHANGED <<sentinel, closeRequested, ipcPolling>>
  /\ UNCHANGED <<pc, writes, abortSignal, prompt, turnCount, lastMessageId,
                 turnCompleted, stalePollers, sent, promptFrom, out, seen, initCount,
                 returnedAt>>

\* pollIpcDuringQuery of an earlier loop iteration that was never stopped:
\* it writes to the closeRequested and pendingMessages of its own closure
StalePollIpc ==
  /\ stalePollers > 0
  /\ IF ShouldClose(sentinel).returns
     THEN /\ sentinel' = ShouldClose(sentinel).sentinel
          /\ stalePollers' = stalePollers - 1
          /\ UNCHANGED files
     ELSE /\ files' = DrainRemaining(files)
          /\ UNCHANGED <<sentinel, stalePollers>>
  /\ UNCHANGED <<pc, writes, abortSignal, prompt, turnCount, lastMessageId,
                 turnCompleted, closeRequested, ipcPolling, pendingMessages,
                 sent, promptFrom, out, seen, initCount, returnedAt>>

(***************************************************************************)
(* The environment: writers of the input directory and the abort signal.   *)
(***************************************************************************)
WriteFile(n, c) ==
  /\ pc # "done"
  /\ writes < MaxWrites
  /\ writes' = writes + 1
  /\ files' = [files EXCEPT ![n] = c]
  /\ UNCHANGED <<pc, sentinel, abortSignal, prompt, turnCount, lastMessageId,
                 turnCompleted, closeRequested, ipcPolling, pendingMessages,
                 stalePollers, sent, promptFrom, out, seen, initCount, returnedAt>>

WriteClose ==
  /\ pc # "done"
  /\ ~sentinel
  /\ sentinel' = TRUE
  /\ UNCHANGED <<pc, files, writes, abortSignal, prompt, turnCount,
                 lastMessageId, turnCompleted, closeRequested, ipcPolling,
                 pendingMessages, stalePollers, sent, promptFrom, out, seen, initCount,
                 returnedAt>>

SetAbort ==
  /\ pc # "done"
  /\ ~abortSignal
  /\ abortSignal' = TRUE
  /\ UNCHANGED <<pc, files, sentinel, writes, prompt, turnCount,
                 lastMessageId, turnCompleted, closeRequested, ipcPolling,
                 pendingMessages, stalePollers, sent, promptFrom, out, seen, initCount,
                 returnedAt>>

\* what the loop's other steps and its environment never touch
otherVars == <<textVars, abortVars, resumeVars, hostVars, runnerVars, queryVars,
               startupVars, backendVars, faultVars, toolVars, streamVars, staleVars, legacyVars, initVars>>

\* One step of the adapter or of its environment, the backend delivering
\* events of E and the writers putting contents of C into files named in N.
NextOver(E, N, C) ==
  \/ Start /\ UNCHANGED otherVars
  \/ AfterPrompt /\ UNCHANGED otherVars
  \/ (\E e \in E : EventLoopStep(e)) /\ UNCHANGED otherVars
  \/ AbortSession
       /\ UNCHANGED <<textVars, resumeVars, hostVars, runnerVars, queryVars,
                      startupVars, backendVars, faultVars, toolVars, streamVars, staleVars, legacyVars, initVars>>
  \/ StreamEnd /\ UNCHANGED otherVars
  \/ AfterResult /\ UNCHANGED otherVars
  \/ WaitPoll /\ UNCHANGED otherVars
  \/ PollIpcDuringQuery /\ UNCHANGED otherVars
  \/ StalePollIpc /\ UNCHANGED otherVars
  \/ (\E n \in N : \E c \in WritableContents(n, C) : WriteFile(n, c))
       /\ UNCHANGED otherVars
  \/ WriteClose /\ UNCHANGED otherVars
  \/ SetAbort /\ UNCHANGED otherVars

FirstMessage == [valid |-> TRUE, type |-> "message", text |-> <<"first">>]

\* the events that end a turn or yield one text
TurnEvents == IdleEvents \cup {e \in TextPartEvents : e.sessionID = Own}

\* the loop under every backend event, with well-formed mailbox messages
Next == NextOver(LoopEvents, {<<1, "json">>}, {FirstMessage})
Spec == Init /\ [][Next]_vars

\* the loop under every mailbox content, with plain turns
NextMailbox == NextOver(TurnEvents, Names, Contents)
SpecMailbox == Init /\ [][NextMailbox]_vars

(***************************************************************************)
(* The backend of the driven session and the event stream.  The server     *)
(* works on a prompt from the moment client.session.prompt is called (line *)
(* 1106) and emits the events of the turn, the session.idle last, to the   *)
(* streams that are subscribed at that moment.  The loop subscribes a new  *)
(* stream in every iteration (line 1130), after the prompt call has        *)
(* returned; when the call returns relative to the server's work is up to  *)
(* the server.                                                             *)
(***************************************************************************)
OwnIdle == [BaseEvent EXCEPT !.type = "session.idle", !.sessionID = Own]
OwnText ==
  [BaseEvent EXCEPT !.type = "message.part.updated", !.sessionID = Own,
                    !.partType = "text", !.partId = "part-1",
                    !.text = <<"Hello">>]
BackendEvents == {OwnText, OwnIdle}

\* the stream of line 1130 is open: the for-await loop has not been left
Subscribed == pc \in {"events", "aborting"}

\* the server emits event e of the prompt it is working on
BackendEmit(e) ==
  /\ served < Len(sent)
  /\ e = OwnIdle \/ emittedNow < MaxEvents
  /\ IF Subscribed
     THEN delivered' = Append(delivered, e) /\ UNCHANGED lost
     ELSE lost' = Append(lost, e) /\ UNCHANGED delivered
  /\ IF e = OwnIdle
     THEN served' = served + 1 /\ emittedNow' = 0
     ELSE emittedNow' = emittedNow + 1 /\ UNCHANGED served
  /\ UNCHANGED loopVars

\* lines 1120-1173 with the stream of this iteration: it starts empty
BackendAfterPrompt ==
  /\ AfterPrompt
  /\ delivered' = <<>>
  /\ UNCHANGED <<served, emittedNow, lost>>

\* line 1176 takes the next event of the stream
BackendEventStep ==
  /\ delivered # <<>>
  /\ EventLoopStep(Head(delivered))
  /\ delivered' = Tail(delivered)
  /\ UNCHANGED <<served, emittedNow, lost>>

notBackendVars == <<textVars, resumeVars, hostVars, runnerVars, queryVars,
                    startupVars, faultVars, toolVars, streamVars, staleVars, legacyVars, initVars>>

NextBackend ==
  \/ Start /\ UNCHANGED <<abortVars, notBackendVars, backendVars, faultVars, toolVars, streamVars, staleVars, legacyVars, initVars>>
  \/ BackendAfterPrompt /\ UNCHANGED <<abortVars, notBackendVars>>
  \/ (\E e \in BackendEvents : BackendEmit(e))
       /\ UNCHANGED <<abortVars, notBackendVars>>
  \/ BackendEventStep /\ UNCHANGED <<abortVars, notBackendVars>>
  \/ AbortSession /\ UNCHANGED <<notBackendVars, backendVars, faultVars, toolVars, streamVars, staleVars, legacyVars, initVars>>
  \/ StreamEnd /\ UNCHANGED <<abortVars, notBackendVars, backendVars, faultVars, toolVars, streamVars, staleVars, legacyVars, initVars>>
  \/ AfterResult /\ UNCHANGED <<abortVars, notBackendVars, backendVars, faultVars, toolVars, streamVars, staleVars, legacyVars, initVars>>
  \/ WaitPoll /\ UNCHANGED <<abortVars, notBackendVars, backendVars, faultVars, toolVars, streamVars, staleVars, legacyVars, initVars>>
  \/ PollIpcDuringQuery /\ UNCHANGED <<abortVars, notBackendVars, backendVars, faultVars, toolVars, streamVars, staleVars, legacyVars, initVars>>
  \/ StalePollIpc /\ UNCHANGED <<abortVars, notBackendVars, backendVars, faultVars, toolVars, streamVars, staleVars, legacyVars, initVars>>
  \/ WriteFile(<<1, "json">>, FirstMessage)
       /\ UNCHANGED <<abortVars, notBackendVars, backendVars, faultVars, toolVars, streamVars, staleVars, legacyVars, initVars>>
  \/ WriteClose /\ UNCHANGED <<abortVars, notBackendVars, backendVars, faultVars, toolVars, streamVars, staleVars, legacyVars, initVars>>
  \/ SetAbort /\ UNCHANGED <<abortVars, notBackendVars, backendVars, faultVars, toolVars, streamVars, staleVars, legacyVars, initVars>>
SpecBackend == Init /\ [][NextBackend]_vars

(***************************************************************************)
(* The loop on a filesystem whose unlinkSync may fail.  unlinkFails[n] is  *)
(* the number of unlinkSync calls on file n that fail in a row at present: *)
(* 0 none, 1 the call of line 247 fails and the one of line 253 succeeds,  *)
(* 2 both fail.  Every file name has a text of its own, and every turn     *)
(* ends on the session's session.idle.                                     *)
(***************************************************************************)
TextOfName(n) == <<ToString(n[1])>>
MessageOfName(n) == [valid |-> TRUE, type |-> "message", text |-> TextOfName(n)]

\* the condition of one file changes
SetUnlinkFaults(n, k) ==
  /\ pc # "done"
  /\ k # unlinkFails[n]
  /\ unlinkFails' = [unlinkFails EXCEPT ![n] = k]
  /\ UNCHANGED <<loopVars, abortVars, unlinkThrew>>

\* a step that calls drainIpcInput when drains holds: lines 245-254 throw
\* on the listed files whose unlinkSync fails
DrainFaults(drains) ==
  /\ unlinkThrew' = (unlinkThrew \/
        (drains /\ \E n \in ListedSet(files) : unlinkFails[n] > 0))
  /\ UNCHANGED unlinkFails

notFaultVars == <<textVars, abortVars, resumeVars, hostVars, runnerVars,
                  queryVars, startupVars, backendVars, toolVars, streamVars, staleVars, legacyVars, initVars>>

NextFaults ==
  \/ Start /\ UNCHANGED <<notFaultVars, faultVars, toolVars, streamVars, staleVars, legacyVars, initVars>>
  \/ AfterPrompt /\ UNCHANGED <<notFaultVars, faultVars, toolVars, streamVars, staleVars, legacyVars, initVars>>
  \/ EventLoopStep(OwnIdle) /\ UNCHANGED <<notFaultVars, faultVars, toolVars, streamVars, staleVars, legacyVars, initVars>>
  \/ AfterResult /\ UNCHANGED notFaultVars
       /\ DrainFaults(~closeRequested /\ pendingMessages = <<>> /\ ~sentinel)
  \/ WaitPoll /\ DrainFaults(~sentinel) /\ UNCHANGED notFaultVars
  \/ PollIpcDuringQuery /\ DrainFaults(~sentinel) /\ UNCHANGED notFaultVars
  \/ (\E n \in JsonNames : \E c \in {MessageOfName(n), Malformed} :
        WriteFile(n, c)) /\ UNCHANGED <<notFaultVars, faultVars, toolVars, streamVars, staleVars, legacyVars, initVars>>
  \/ WriteClose /\ UNCHANGED <<notFaultVars, faultVars, toolVars, streamVars, staleVars, legacyVars, initVars>>
  \/ (\E n \in JsonNames, k \in 0..2 : SetUnlinkFaults(n, k))
       /\ UNCHANGED notFaultVars
SpecFaults == Init /\ [][NextFaults]_vars

(***************************************************************************)
(* runQuery (lines 776-910): one prompt, then the events of the stream     *)
(* until the session's own session.idle.  pc is "queryPrompted" while the  *)
(* generator awaits client.session.prompt and "queryEvents" while it       *)
(* awaits the next event.                                                  *)
(***************************************************************************)
\* lines 782-829: client.session.prompt with the prompt of the call
QueryStart ==
  /\ pc = "init"
  /\ sent' = Append(sent, InitialPrompt)
  /\ promptFrom' = "query"
  /\ turnCount' = turnCount + 1
  /\ pc' = "queryPrompted"
  /\ UNCHANGED <<files, sentinel, writes, abortSignal, prompt, lastMessageId,
                 turnCompleted, closeRequested, ipcPolling, pendingMessages,
                 stalePollers, out, seen, initCount, returnedAt>>
  /\ UNCHANGED <<completed, abortVars>>

\* lines 831-860: the init message, then client.event.subscribe
QueryAfterPrompt ==
  /\ pc = "queryPrompted"
  /\ initCount' = initCount + 1
  /\ completed' = FALSE
  /\ \E stream \in BOOLEAN :
       IF stream
       THEN /\ out' = Append(out, InitMessage(Own))
            /\ pc' = "queryEvents"
            /\ UNCHANGED returnedAt
       ELSE /\ out' = Append(out, InitMessage(Own)) \o SubscribeErrorMessages
            /\ pc' = "done"
            /\ returnedAt' = "subscribe-failed"
  /\ UNCHANGED <<files, sentinel, writes, abortSignal, prompt, turnCount,
                 lastMessageId, turnCompleted, closeRequested, ipcPolling,
                 pendingMessages, stalePollers, sent, promptFrom, seen>>
  /\ UNCHANGED abortVars

\* lines 862-908: one iteration of the for-await loop on event e
QueryEventStep(e) ==
  /\ pc = "queryEvents"
  /\ abortSignal \/ IsForeign(e, Own) \/ IsOwnIdle(e, Own) \/ Len(seen) < MaxEvents
  /\ IF abortSignal
     THEN /\ abortAttempts' = abortAttempts + 1
          /\ abortFailed' \in BOOLEAN
          /\ out' = Append(out, AbortResult)
          /\ pc' = "done"
          /\ returnedAt' = "aborted"
          /\ UNCHANGED <<seen, initCount, completed>>
     ELSE IF IsForeign(e, Own)
     THEN UNCHANGED <<out, seen, pc, returnedAt, initCount, completed, abortVars>>
     ELSE /\ initCount' = initCount + CountInit(NormalizeEvent(e, Own))
          /\ seen' = Append(seen, e.type)
          /\ completed' = (completed \/
                 \E i \in 1..Len(NormalizeEvent(e, Own)) :
                    NormalizeEvent(e, Own)[i].type = "result")
          /\ UNCHANGED abortVars
          /\ IF IsOwnIdle(e, Own)
             THEN /\ out' = out \o NormalizeEvent(e, Own)
                          \o (IF completed' THEN <<>>
                              ELSE <<Msg("result", "success")>>)
                  /\ pc' = "done"
                  /\ returnedAt' = "query-idle"
             ELSE /\ out' = out \o NormalizeEvent(e, Own)
                  /\ UNCHANGED <<pc, returnedAt>>
  /\ UNCHANGED <<files, sentinel, writes, abortSignal, prompt, turnCount,
                 lastMessageId, turnCompleted, closeRequested, ipcPolling,
                 pendingMessages, stalePollers, sent, promptFrom>>

\* the for-await loop ends because the stream ends: line 909
QueryStreamEnd ==
  /\ pc = "queryEvents"
  /\ pc' = "done"
  /\ returnedAt' = "query-stream-ended"
  /\ UNCHANGED <<files, sentinel, writes, abortSignal, prompt, turnCount,
                 lastMessageId, turnCompleted, closeRequested, ipcPolling,
                 pendingMessages, stalePollers, sent, promptFrom, out, seen,
                 initCount>>
  /\ UNCHANGED <<completed, abortVars>>

notQueryVars == <<textVars, resumeVars, hostVars, runnerVars, startupVars, backendVars, faultVars, toolVars, streamVars, staleVars, legacyVars, initVars>>

NextQuery ==
  \/ QueryStart /\ UNCHANGED notQueryVars
  \/ QueryAfterPrompt /\ UNCHANGED notQueryVars
  \/ (\E e \in LoopEvents : QueryEventStep(e)) /\ UNCHANGED notQueryVars
  \/ QueryStreamEnd /\ UNCHANGED notQueryVars
  \/ SetAbort /\ UNCHANGED otherVars
SpecQuery == Init /\ [][NextQuery]_vars

(***************************************************************************)
(* The two event loops on a stream that carries the events of every        *)
(* session of the server (lines 1189-1197 and 875-883 filter them).        *)
(* lastEvent is the event that line 1176 or line 863 took last.            *)
(***************************************************************************)
StreamEvents ==
  {e \in LoopEvents : e.sessionID \in {Other, None}} \cup {OwnIdle, OwnText}

TakeLoopEvent(e) == EventLoopStep(e) /\ lastEvent' = e
TakeQueryEvent(e) == QueryEventStep(e) /\ lastEvent' = e

notStreamVars == <<textVars, resumeVars, hostVars, runnerVars, startupVars,
                   backendVars, faultVars, toolVars, staleVars, legacyVars, initVars>>

NextStream ==
  \/ Start /\ UNCHANGED <<abortVars, queryVars, notStreamVars, streamVars, staleVars, legacyVars, initVars>>
  \/ AfterPrompt /\ UNCHANGED <<abortVars, queryVars, notStreamVars, streamVars, staleVars, legacyVars, initVars>>
  \/ (\E e \in StreamEvents : TakeLoopEvent(e))
       /\ UNCHANGED <<abortVars, queryVars, notStreamVars>>
  \/ AbortSession /\ UNCHANGED <<queryVars, notStreamVars, streamVars, staleVars, legacyVars, initVars>>
  \/ AfterResult /\ UNCHANGED <<abortVars, queryVars, notStreamVars, streamVars, staleVars, legacyVars, initVars>>
  \/ WaitPoll /\ UNCHANGED <<abortVars, queryVars, notStreamVars, streamVars, staleVars, legacyVars, initVars>>
  \/ WriteFile(<<1, "json">>, FirstMessage)
       /\ UNCHANGED <<abortVars, queryVars, notStreamVars, streamVars, staleVars, legacyVars, initVars>>
  \/ WriteClose /\ UNCHANGED <<abortVars, queryVars, notStreamVars, streamVars, staleVars, legacyVars, initVars>>
  \/ SetAbort /\ UNCHANGED <<abortVars, queryVars, notStreamVars, streamVars, staleVars, legacyVars, initVars>>
  \/ QueryStart /\ UNCHANGED <<notStreamVars, streamVars, staleVars, legacyVars, initVars>>
  \/ QueryAfterPrompt /\ UNCHANGED <<notStreamVars, streamVars, staleVars, legacyVars, initVars>>
  \/ (\E e \in StreamEvents : TakeQueryEvent(e)) /\ UNCHANGED notStreamVars
SpecStream == Init /\ [][NextStream]_vars

(***************************************************************************)
(* The loop started in a directory that may hold the _close file of an     *)
(* earlier run: line 1078 removes the file, or throws and is ignored.      *)
(***************************************************************************)
StaleStart == Start /\ removedStale' = sentinel

notStaleVars == <<textVars, abortVars, resumeVars, hostVars, runnerVars,
                  queryVars, startupVars, backendVars, faultVars, toolVars,
                  streamVars, legacyVars, initVars>>

NextStale ==
  \/ StaleStart /\ UNCHANGED notStaleVars
  \/ AfterPrompt /\ UNCHANGED <<notStaleVars, staleVars, legacyVars, initVars>>
  \/ (\E e \in TurnEvents : EventLoopStep(e)) /\ UNCHANGED <<notStaleVars, staleVars, legacyVars, initVars>>
  \/ StreamEnd /\ UNCHANGED <<notStaleVars, staleVars, legacyVars, initVars>>
  \/ AfterResult /\ UNCHANGED <<notStaleVars, staleVars, legacyVars, initVars>>
  \/ WaitPoll /\ UNCHANGED <<notStaleVars, staleVars, legacyVars, initVars>>
  \/ PollIpcDuringQuery /\ UNCHANGED <<notStaleVars, staleVars, legacyVars, initVars>>
  \/ StalePollIpc /\ UNCHANGED <<notStaleVars, staleVars, legacyVars, initVars>>
  \/ WriteFile(<<1, "json">>, FirstMessage) /\ UNCHANGED <<notStaleVars, staleVars, legacyVars, initVars>>
  \/ WriteClose /\ UNCHANGED <<notStaleVars, staleVars, legacyVars, initVars>>
SpecStale == Init /\ [][NextStale]_vars

(***************************************************************************)
(* resumeSession (lines 917-978) called by the owner of the adapter before *)
(* it runs the loop on the Session object it got back.  Own is the id of   *)
(* that object; resumeOf tells which backend session the id names: the one *)
(* createSession made ("created"), the session that was asked for          *)
(* ("original") or the session client.session.fork made ("fork").  Every   *)
(* prompt of the loop goes to path {id: session.id} (line 1106), so the    *)
(* prompts in sent are the messages the named backend session receives.    *)
(***************************************************************************)
ResumeMarkers == {Undefined, <<>>, <<"message-100">>}

\* lines 917-978; marker is resumeAt, client: this.client is set, getData:
\* session.get answered with data, forkData: session.fork answered with data
ResumeSession(marker, client, getData, forkData) ==
  /\ pc = "init"
  /\ resumeOf = "created"
  /\ resumeAt' = marker
  /\ IF ~client \/ ~getData
     THEN /\ resumeOf' = "none"
          /\ pc' = "done"
          /\ returnedAt' = "resume-threw"
     ELSE /\ resumeOf' = IF marker \notin {Undefined, <<>>} /\ forkData
                         THEN "fork" ELSE "original"
          /\ UNCHANGED <<pc, returnedAt>>
  /\ UNCHANGED <<files, sentinel, writes, abortSignal, prompt, turnCount,
                 lastMessageId, turnCompleted, closeRequested, ipcPolling,
                 pendingMessages, stalePollers, sent, promptFrom, out, seen,
                 initCount>>

\* messages the backend session in role r received from this adapter
NewMessagesOf(r) == IF resumeOf = r THEN sent ELSE <<>>

\* the loop run on a created or on a resumed session
NextResume ==
  \/ (\E marker \in ResumeMarkers, client, getData, forkData \in BOOLEAN :
        ResumeSession(marker, client, getData, forkData))
       /\ UNCHANGED <<textVars, abortVars, hostVars, runnerVars, queryVars,
                      startupVars, backendVars, faultVars, toolVars, streamVars, staleVars, legacyVars, initVars>>
  \/ NextOver(TurnEvents, {<<1, "json">>}, {FirstMessage})
SpecResume == Init /\ [][NextResume]_vars

(***************************************************************************)
(* A stream of message.part.updated events for one text part, as the loop  *)
(* passes them through normalizeEvent (lines 1208-1211).  The backend      *)
(* appends a piece (or nothing) to the part and sends either the piece as  *)
(* delta or only the full text of the part.                                *)
(***************************************************************************)
Pieces == {<<>>, <<"a">>, <<"b">>}

TextEvent(text, delta) ==
  [BaseEvent EXCEPT !.type = "message.part.updated", !.sessionID = Own,
                    !.partType = "text", !.partId = "part-1",
                    !.text = text, !.delta = delta]

\* Array of yielded text messages -> the concatenation of their content
RECURSIVE ContentOf(_)
ContentOf(ms) ==
  IF ms = <<>> THEN <<>>
  ELSE (IF Head(ms).type = "text" THEN Head(ms).content ELSE <<>>)
       \o ContentOf(Tail(ms))

TextUpdate(piece, withDelta) ==
  /\ updates < MaxUpdates
  /\ Len(partText) + Len(piece) <= MaxTextLen
  /\ updates' = updates + 1
  /\ partText' = partText \o piece
  /\ partMode' = LET m == IF withDelta THEN "delta" ELSE "snapshot"
                 IN IF partMode \in {None, m} THEN m ELSE "mixed"
  /\ emitted' = emitted \o
        ContentOf(NormalizeEvent(
           TextEvent(partText \o piece, IF withDelta THEN piece ELSE <<>>), Own))
  /\ UNCHANGED <<loopVars, abortVars, resumeVars, hostVars, runnerVars,
                 queryVars, startupVars, backendVars, faultVars, toolVars, streamVars, staleVars, legacyVars, initVars>>

NextText == \E piece \in Pieces, withDelta \in BOOLEAN : TextUpdate(piece, withDelta)
SpecText == Init /\ [][NextText]_vars

(***************************************************************************)
(* The output framer.  A record is framed as a start marker line, the JSON *)
(* of the record on a line of its own and an end marker line.  JSON text   *)
(* is a sequence of pieces like every string of this module; a read chunk  *)
(* may end after any piece.                                                *)
(***************************************************************************)
StartMarker == <<"---NANOCLAW_OUTPUT_", "START---">>
EndMarker == <<"---NANOCLAW_OUTPUT_", "END---">>
Statuses == {"success", "error", "timeout"}
SessionIds == {"s1", "s2"}
\* result strings: empty, plain, with a newline, with a backslash, with a
\* quote, and the text of the end marker
ResultStrings ==
  {<<>>, <<"ok">>, <<"a", NL, "b">>, <<"\\", "n">>, <<"\"">>, EndMarker}
\* ContainerOutput; newSessionId is None when the key is absent
Records ==
  [status : Statuses, result : {Null} \cup ResultStrings,
   newSessionId : SessionIds \cup {None}]

\* JSON string escapes of one piece
EscapePiece(p) ==
  CASE p = NL -> <<"\\", "n">>
    [] p = "\"" -> <<"\\", "\"">>
    [] p = "\\" -> <<"\\", "\\">>
    [] OTHER -> <<p>>

RECURSIVE Escape(_)
Escape(s) == IF s = <<>> THEN <<>> ELSE EscapePiece(Head(s)) \o Escape(Tail(s))

\* a serialisation that writes the pieces of a string as they are
StringifyUnescaped(r) ==
  <<"{", r.status>>
  \o (IF r.result = Null THEN <<"null">>
      ELSE <<"\"">> \o r.result \o <<"\"">>)
  \o (IF r.newSessionId = None THEN <<>> ELSE <<r.newSessionId>>)
  \o <<"}">>

\* JSON.stringify(output): the status, the result as null or as a quoted
\* and escaped string, the newSessionId key only when it is set
Stringify(r) ==
  <<"{", r.status>>
  \o (IF r.result = Null THEN <<"null">>
      ELSE <<"\"">> \o Escape(r.result) \o <<"\"">>)
  \o (IF r.newSessionId = None THEN <<>> ELSE <<r.newSessionId>>)
  \o <<"}">>

\* position of the quote that closes the string whose content begins at i,
\* 0 when the string is not closed
RECURSIVE StringEnd(_, _)
StringEnd(line, i) ==
  IF i > Len(line) THEN 0
  ELSE IF line[i] = "\\" THEN StringEnd(line, i + 2)
  ELSE IF line[i] = "\"" THEN i
  ELSE StringEnd(line, i + 1)

\* the string an escaped string content stands for
RECURSIVE Unescape(_)
Unescape(s) ==
  IF s = <<>> THEN <<>>
  ELSE IF Head(s) = "\\"
  THEN <<IF s[2] = "n" THEN NL ELSE s[2]>> \o Unescape(Tail(Tail(s)))
  ELSE <<Head(s)>> \o Unescape(Tail(s))

\* position of the last piece of the result value, 0 when there is none
ResultEnd(line) ==
  IF line[3] = "null" THEN 3
  ELSE IF line[3] = "\"" THEN StringEnd(line, 4)
  ELSE 0

\* JSON.parse(line) does not throw
IsJson(line) ==
  /\ Len(line) >= 4
  /\ line[1] = "{" /\ line[2] \in Statuses
  /\ ResultEnd(line) # 0
  /\ \/ Len(line) = ResultEnd(line) + 1
     \/ Len(line) = ResultEnd(line) + 2 /\ line[ResultEnd(line) + 1] \in SessionIds
  /\ line[Len(line)] = "}"

\* JSON.parse(line)
ParseJson(line) ==
  [status |-> line[2],
   result |-> IF line[3] = "null" THEN Null
              ELSE Unescape(SubSeq(line, 4, ResultEnd(line) - 1)),
   newSessionId |-> IF Len(line) = ResultEnd(line) + 2
                    THEN line[ResultEnd(line) + 1] ELSE None]

\* writeOutput(output): three console.log calls
WriteOutput(r) ==
  StartMarker \o <<NL>> \o Stringify(r) \o <<NL>> \o EndMarker \o <<NL>>

\* what a subprocess writes to stdout: framed records, a frame whose JSON is
\* cut short, and log lines
NoRecord == [status |-> None, result |-> Null, newSessionId |-> None]
RecordItem(r) == [kind |-> "record", rec |-> r]
BadItem == [kind |-> "bad", rec |-> NoRecord]
NoiseItem == [kind |-> "noise", rec |-> NoRecord]
HostRecords ==
  {[status |-> "success", result |-> <<"ok">>, newSessionId |-> "s1"],
   [status |-> "error", result |-> Null, newSessionId |-> "s2"],
   [status |-> "timeout", result |-> Null, newSessionId |-> "s1"]}
Items == {RecordItem(r) : r \in HostRecords} \cup {BadItem, NoiseItem}

ItemText(it) ==
  CASE it.kind = "record" -> WriteOutput(it.rec)
    [] it.kind = "bad" ->
         StartMarker \o <<NL>> \o <<"{", "success">> \o <<NL>> \o EndMarker \o <<NL>>
    [] OTHER -> <<"log line", NL>>

\* a decoder that makes a record of JSON that is cut short
FeedLineKeepsBadJson(st, line) ==
  IF st.expect
  THEN [st EXCEPT !.expect = FALSE,
                  !.recs = IF Len(line) >= 2 /\ line[1] = "{"
                           THEN Append(@, [status |-> line[2],
                                           result |-> Null,
                                           newSessionId |-> None])
                           ELSE @]
  ELSE IF line = StartMarker THEN [st EXCEPT !.expect = TRUE] ELSE st

\* the decoder on one complete line: the line after a start marker is the
\* JSON of a record; JSON that does not parse drops that record only
FeedLine(st, line) ==
  IF st.expect
  THEN [st EXCEPT !.expect = FALSE,
                  !.recs = IF IsJson(line) THEN Append(@, ParseJson(line)) ELSE @]
  ELSE IF line = StartMarker THEN [st EXCEPT !.expect = TRUE] ELSE st

\* the decoder's loop over the pieces it was given
RECURSIVE FeedPieces(_, _)
FeedPieces(st, pieces) ==
  IF pieces = <<>> THEN st
  ELSE FeedPieces(IF Head(pieces) = NL
                  THEN [FeedLine(st, st.buf) EXCEPT !.buf = <<>>]
                  ELSE [st EXCEPT !.buf = Append(@, Head(pieces))],
                  Tail(pieces))

\* a decoder that takes every read to begin a line
FeedWholeReads(st, chunk) == FeedPieces([st EXCEPT !.buf = <<>>], chunk)

\* the decoder on one read chunk; the pieces after the last newline stay in
\* the buffer until the next read
Feed(st, chunk) == FeedPieces(st, chunk)

(***************************************************************************)
(* The session host controller: it reads the stdout of the subprocess      *)
(* through the decoder, relays every record to the streaming callback,     *)
(* keeps one deadline that every decoded record moves, stops the           *)
(* subprocess when the deadline passes and resolves when the subprocess    *)
(* has exited and its output has been handled.                             *)
(***************************************************************************)
\* a controller whose deadline is counted from the start only
DeadlineNotReset(t, d) == d

\* the deadline after a record was decoded at time t
DeadlineAfterRecord(t, d) == t + HostTimeout

\* a resolution that needs a clean exit to report success
ResolveOnlyUntimed(recs, sid, timedOut) ==
  IF recs # <<>> /\ ~timedOut
  THEN [status |-> "success", result |-> Null, newSessionId |-> sid,
        error |-> None]
  ELSE [status |-> "error", result |-> Null, newSessionId |-> None,
        error |-> IF timedOut THEN "timed out" ELSE "exited"]

\* a resolution that does not tell a timeout from an exit
ResolveWithoutTimeoutText(recs, sid, timedOut) ==
  IF recs # <<>>
  THEN [status |-> "success", result |-> Null, newSessionId |-> sid,
        error |-> None]
  ELSE [status |-> "error", result |-> Null, newSessionId |-> None,
        error |-> "exited"]

\* what the controller resolves with at process exit
Resolve(recs, sid, timedOut) ==
  IF recs # <<>>
  THEN [status |-> "success", result |-> Null, newSessionId |-> sid,
        error |-> None]
  ELSE [status |-> "error", result |-> Null, newSessionId |-> None,
        error |-> IF timedOut THEN "timed out" ELSE "exited"]

\* a legacy resolution that reports success with the last result and id
ResolveLegacyAsSuccess(recs, timedOut) ==
  IF recs # <<>>
  THEN [status |-> "success", result |-> Last(recs).result,
        newSessionId |-> Last(recs).newSessionId, error |-> None]
  ELSE [status |-> "error", result |-> Null, newSessionId |-> None,
        error |-> IF timedOut THEN "timed out" ELSE "exited"]

\* a legacy resolution that takes the first record of the output
ResolveLegacyFirst(recs, timedOut) ==
  IF recs # <<>>
  THEN [status |-> Head(recs).status, result |-> Head(recs).result,
        newSessionId |-> Head(recs).newSessionId, error |-> None]
  ELSE [status |-> "error", result |-> Null, newSessionId |-> None,
        error |-> IF timedOut THEN "timed out" ELSE "exited"]

\* what the controller resolves with at process exit when it was called
\* without a streaming callback: the last record of the output itself
ResolveLegacy(recs, timedOut) ==
  IF recs # <<>>
  THEN [status |-> Last(recs).status, result |-> Last(recs).result,
        newSessionId |-> Last(recs).newSessionId, error |-> None]
  ELSE [status |-> "error", result |-> Null, newSessionId |-> None,
        error |-> IF timedOut THEN "timed out" ELSE "exited"]

\* a callback queue that hands out the newest record first
NextCallbackNewest(q) == [rec |-> Last(q), rest |-> SubSeq(q, 1, Len(q) - 1)]

\* the callback chain runs the callbacks in the order they were added
NextCallback(q) == [rec |-> Head(q), rest |-> Tail(q)]

\* the subprocess writes one item to stdout
ProcWrite(it) ==
  /\ procAlive
  /\ hostState # "resolved"
  /\ Len(emittedItems) < MaxItems
  /\ emittedItems' = Append(emittedItems, it)
  /\ stdout' = stdout \o ItemText(it)
  /\ UNCHANGED <<readCount, splitDecoded, procAlive, buffer, expectPayload, decoded,
                 callbacks, relayed, lastSessionId, now, deadline,
                 lastRecordAt, hostState, kills, resolution>>

\* the subprocess exits, by itself or because it was stopped
ProcExit ==
  /\ procAlive
  /\ procAlive' = FALSE
  /\ UNCHANGED <<stdout, emittedItems, readCount, splitDecoded, buffer, expectPayload,
                 decoded, callbacks, relayed, lastSessionId, now, deadline,
                 lastRecordAt, hostState, kills, resolution>>

\* the controller reads a chunk of k pieces of stdout
HostRead(k) ==
  /\ hostState # "resolved"
  /\ k \in 1..Len(stdout)
  /\ LET st == Feed([expect |-> expectPayload, buf |-> buffer, recs |-> <<>>],
                    SubSeq(stdout, 1, k))
     IN /\ stdout' = SubSeq(stdout, k + 1, Len(stdout))
        /\ readCount' = readCount + k
        /\ splitDecoded' = (splitDecoded \/
               (expectPayload /\ buffer # <<>> /\ st.recs # <<>>))
        /\ buffer' = st.buf
        /\ expectPayload' = st.expect
        /\ decoded' = decoded \o st.recs
        /\ callbacks' = IF onOutput THEN callbacks \o st.recs ELSE callbacks
        /\ lastSessionId' = IF st.recs # <<>> THEN Last(st.recs).newSessionId
                            ELSE lastSessionId
        /\ deadline' = IF st.recs # <<>> THEN DeadlineAfterRecord(now, deadline)
                       ELSE deadline
        /\ lastRecordAt' = IF st.recs # <<>> THEN now ELSE lastRecordAt
  /\ UNCHANGED <<emittedItems, procAlive, relayed, now, hostState, kills,
                 resolution>>

\* the streaming callback is invoked with the next record
RunCallback ==
  /\ callbacks # <<>>
  /\ relayed' = Append(relayed, NextCallback(callbacks).rec)
  /\ callbacks' = NextCallback(callbacks).rest
  /\ UNCHANGED <<stdout, emittedItems, readCount, splitDecoded, procAlive, buffer,
                 expectPayload, decoded, lastSessionId, now, deadline,
                 lastRecordAt, hostState, kills, resolution>>

\* time passes; a running controller does not sleep through its deadline
Tick ==
  /\ hostState # "resolved"
  /\ now < MaxTime
  /\ hostState = "running" => now < deadline
  /\ now' = now + 1
  /\ UNCHANGED <<stdout, emittedItems, readCount, splitDecoded, procAlive, buffer,
                 expectPayload, decoded, callbacks, relayed, lastSessionId,
                 deadline, lastRecordAt, hostState, kills, resolution>>

\* the deadline has passed: the controller stops the subprocess
TimeoutFires ==
  /\ hostState = "running"
  /\ now >= deadline
  /\ hostState' = "stopping"
  /\ kills' = kills + 1
  /\ UNCHANGED <<stdout, emittedItems, readCount, splitDecoded, procAlive, buffer,
                 expectPayload, decoded, callbacks, relayed, lastSessionId,
                 now, deadline, lastRecordAt, resolution>>

\* the subprocess has exited, its output is read and relayed: resolve
HostClose ==
  /\ hostState # "resolved"
  /\ ~procAlive
  /\ stdout = <<>>
  /\ callbacks = <<>>
  /\ resolution' = IF onOutput
                    THEN Resolve(decoded, lastSessionId, hostState = "stopping")
                    ELSE ResolveLegacy(decoded, hostState = "stopping")
  /\ hostState' = "resolved"
  /\ UNCHANGED <<stdout, emittedItems, readCount, splitDecoded, procAlive, buffer,
                 expectPayload, decoded, callbacks, relayed, lastSessionId,
                 now, deadline, lastRecordAt, kills>>

notHostVars == <<loopVars, textVars, abortVars, resumeVars, runnerVars,
                 queryVars, startupVars, backendVars, faultVars, toolVars, streamVars, staleVars, legacyVars, initVars>>

\* One step of the subprocess, of the clock or of the controller, the reads
\* taking chunks of the sizes in K
ChunkSizes == {4}
NextHostOver(K) ==
  \/ (\E it \in Items : ProcWrite(it)) /\ UNCHANGED notHostVars
  \/ ProcExit /\ UNCHANGED notHostVars
  \/ (\E k \in K : HostRead(k)) /\ UNCHANGED notHostVars
  \/ RunCallback /\ UNCHANGED notHostVars
  \/ Tick /\ UNCHANGED notHostVars
  \/ TimeoutFires /\ UNCHANGED notHostVars
  \/ HostClose /\ UNCHANGED notHostVars

\* the controller with its clock; a read takes what is in the pipe, or a
\* chunk that ends inside a line
NextHost == NextHostOver({Len(stdout)} \cup ChunkSizes)
SpecHost == Init /\ [][NextHost]_vars

\* the decoder under every split of stdout into chunks, the clock stopped
NextFramer ==
  \/ (\E it \in Items : ProcWrite(it)) /\ UNCHANGED notHostVars
  \/ ProcExit /\ UNCHANGED notHostVars
  \/ (\E k \in 1..Len(stdout) : HostRead(k)) /\ UNCHANGED notHostVars
  \/ RunCallback /\ UNCHANGED notHostVars
  \/ HostClose /\ UNCHANGED notHostVars
SpecFramer == Init /\ [][NextFramer]_vars

(***************************************************************************)
(* Lazy initialization of the adapter under concurrent method calls.  The  *)
(* methods are async: each runs without interruption up to its next await. *)
(* ensureInitialized reads this.initialized and calls createOpencodeServer *)
(* in one such stretch (generateConfig is synchronous), and goes on after  *)
(* the server promise has settled.                                         *)
(***************************************************************************)
Callers == 1..MaxCallers
\* the public methods that begin with `await this.ensureInitialized()`
InitMethods == {"createSession", "resumeSession", "runQuery", "abortSession",
                "runMultiTurnQuery"}

\* lines 695-722: a method is called and enters ensureInitialized
EnsureInitialized(c, m) ==
  /\ callers[c].at = "idle"
  /\ IF initialized
     THEN /\ callers' = [callers EXCEPT ![c] =
                           [at |-> "ready", method |-> m, server |-> NoServer]]
          /\ UNCHANGED <<liveServers, spawned, startedSinceDispose>>
     ELSE /\ spawned < MaxServers
          /\ spawned' = spawned + 1
          /\ startedSinceDispose' = startedSinceDispose + 1
          /\ liveServers' = liveServers \cup {spawned + 1}
          /\ callers' = [callers EXCEPT ![c] =
                           [at |-> "starting", method |-> m,
                            server |-> spawned + 1]]
  /\ UNCHANGED <<initialized, serverClose>>

\* lines 712-733: the server promise resolves
ServerStarted(c) ==
  /\ callers[c].at = "starting"
  /\ serverClose' = callers[c].server
  /\ initialized' = TRUE
  /\ callers' = [callers EXCEPT ![c].at = "ready"]
  /\ UNCHANGED <<liveServers, spawned, startedSinceDispose>>

\* line 712: the server promise rejects, the method throws
ServerFailed(c) ==
  /\ callers[c].at = "starting"
  /\ liveServers' = liveServers \ {callers[c].server}
  /\ callers' = [callers EXCEPT ![c] =
                   [at |-> "idle", method |-> None, server |-> NoServer]]
  /\ UNCHANGED <<initialized, serverClose, spawned, startedSinceDispose>>

\* the rest of the method, after ensureInitialized has returned
MethodReturns(c) ==
  /\ callers[c].at = "ready"
  /\ callers' = [callers EXCEPT ![c] =
                   [at |-> "idle", method |-> None, server |-> NoServer]]
  /\ UNCHANGED <<initialized, serverClose, liveServers, spawned,
                 startedSinceDispose>>

\* lines 1038-1046: dispose
Dispose ==
  /\ initialized \/ serverClose # NoServer \/ startedSinceDispose > 0
  /\ liveServers' = liveServers \ {serverClose}
  /\ initialized' = FALSE
  /\ serverClose' = NoServer
  /\ startedSinceDispose' = 0
  /\ UNCHANGED <<callers, spawned>>

notInitVars == <<loopVars, textVars, abortVars, resumeVars, hostVars,
                 runnerVars, queryVars, startupVars, backendVars, faultVars,
                 toolVars, streamVars, staleVars, legacyVars>>

NextInit ==
  \/ (\E c \in Callers, m \in InitMethods : EnsureInitialized(c, m))
       /\ UNCHANGED notInitVars
  \/ (\E c \in Callers : ServerStarted(c)) /\ UNCHANGED notInitVars
  \/ (\E c \in Callers : ServerFailed(c)) /\ UNCHANGED notInitVars
  \/ (\E c \in Callers : MethodReturns(c)) /\ UNCHANGED notInitVars
  \/ Dispose /\ UNCHANGED notInitVars
SpecInit == Init /\ [][NextInit]_vars

\* the controller is called without a streaming callback (legacy mode)
CallLegacy ==
  /\ onOutput
  /\ emittedItems = <<>> /\ procAlive /\ hostState = "running" /\ now = 0
  /\ onOutput' = FALSE
  /\ UNCHANGED hostVars

notLegacyVars == <<loopVars, textVars, abortVars, resumeVars, runnerVars,
                   queryVars, startupVars, backendVars, faultVars, toolVars,
                   streamVars, staleVars, initVars>>

\* the legacy controller, the clock stopped
NextLegacy ==
  \/ CallLegacy /\ UNCHANGED notLegacyVars
  \/ ~onOutput /\ (\E it \in Items : ProcWrite(it)) /\ UNCHANGED notHostVars
  \/ ~onOutput /\ ProcExit /\ UNCHANGED notHostVars
  \/ ~onOutput /\ (\E k \in {Len(stdout)} \cup ChunkSizes : HostRead(k))
       /\ UNCHANGED notHostVars
  \/ ~onOutput /\ HostClose /\ UNCHANGED notHostVars
SpecLegacy == Init /\ [][NextLegacy]_vars

\* writeOutput(output) called with any ContainerOutput
EncodeRecord(r) ==
  /\ procAlive
  /\ hostState # "resolved"
  /\ Len(emittedItems) < MaxEncoded
  /\ emittedItems' = Append(emittedItems, RecordItem(r))
  /\ stdout' = stdout \o WriteOutput(r)
  /\ UNCHANGED <<readCount, splitDecoded, procAlive, buffer, expectPayload, decoded,
                 callbacks, relayed, lastSessionId, now, deadline,
                 lastRecordAt, hostState, kills, resolution>>

\* encoding and decoding of every ContainerOutput, the clock stopped
NextCodec ==
  \/ (\E r \in Records : EncodeRecord(r)) /\ UNCHANGED notHostVars
  \/ ProcExit /\ UNCHANGED notHostVars
  \/ (\E k \in {Len(stdout)} \cup ChunkSizes : HostRead(k))
       /\ UNCHANGED notHostVars
  \/ RunCallback /\ UNCHANGED notHostVars
  \/ HostClose /\ UNCHANGED notHostVars
SpecCodec == Init /\ [][NextCodec]_vars

(***************************************************************************)
(* The container runner: it takes the messages the adapter's               *)
(* runMultiTurnQuery yields, keeps the session id of the init message and  *)
(* writes one framed record to stdout for every result message.            *)
(***************************************************************************)
\* messages an adapter may yield to the runner
RunnerMessages ==
  <<InitMessage("s1"), InitMessage("s2"),
    [Msg("text", None) EXCEPT !.content = <<"Hello">>],
    [Msg("system", "error") EXCEPT !.message = <<"boom">>],
    [Msg("result", "success") EXCEPT !.result = <<"OpenCode reply">>],
    Msg("result", "error"),
    Msg("result", "timeout"), Msg("result", "abort")>>

\* result subtype -> ContainerOutput.status
StatusOf(subtype) ==
  CASE subtype = "success" -> "success"
    [] subtype = "timeout" -> "timeout"
    [] OTHER -> "error"

\* result text of a message -> ContainerOutput.result
ResultOf(m) == IF m.result = Undefined THEN Null ELSE m.result

\* a runner that writes a record for error messages of the system too
WritesRecordForErrors(m) ==
  m.type = "result" \/ (m.type = "system" /\ m.subtype = "error")

\* the messages the runner writes a record for
WritesRecord(m) == m.type = "result"

\* the runner takes message m from the adapter
RunnerHandle(m) ==
  /\ Len(yielded) < MaxYields
  /\ yielded' = Append(yielded, m)
  /\ runnerSession' = IF m.type = "system" /\ m.subtype = "init"
                      THEN m.session_id ELSE runnerSession
  /\ IF WritesRecord(m)
     THEN LET r == [status |-> StatusOf(m.subtype),
                    result |-> ResultOf(m),
                    newSessionId |-> runnerSession]
          IN /\ stdout' = stdout \o WriteOutput(r)
             /\ emittedItems' = Append(emittedItems, RecordItem(r))
     ELSE UNCHANGED <<stdout, emittedItems>>
  /\ UNCHANGED <<readCount, splitDecoded, procAlive, buffer, expectPayload,
                 decoded, callbacks, relayed, lastSessionId, now, deadline,
                 lastRecordAt, hostState, kills, resolution>>

NextRunner ==
  (\E i \in 1..Len(RunnerMessages) : RunnerHandle(RunnerMessages[i]))
    /\ UNCHANGED <<loopVars, textVars, abortVars, resumeVars, queryVars,
                   startupVars, backendVars, faultVars, toolVars, streamVars, staleVars, legacyVars, initVars>>
SpecRunner == Init /\ [][NextRunner]_vars

(***************************************************************************)
(* Start-up: the host evaluates src/config.ts, the container calls         *)
(* createAdapter and createSession, the host resolves the model of a       *)
(* group.  An environment variable is Undefined when it is not set; a      *)
(* blank is the piece " ".                                                 *)
(***************************************************************************)
DefaultModel == <<"anthropic/claude-sonnet-4-20250514">>

BackendValues ==
  {Undefined, <<>>, <<"claude">>, <<"opencode">>, <<"OpenCode">>,
   <<"invalid-backend">>}
OpenCodeModelValues ==
  {Undefined, <<" ", " ", " ">>, <<"openai/gpt-4.1">>, <<" ", "openai/gpt-4.1">>}
ModelValues == {Undefined, <<" ">>, <<"openai/gpt-4o-mini">>}
GroupModelValues == {Undefined, <<" ">>, <<"group/model", " ">>}

\* x || y
OrDefault(x, y) == IF x # Undefined /\ x # <<>> THEN x ELSE y

\* String.prototype.toLowerCase
ToLowerCase(s) == [i \in 1..Len(s) |-> IF s[i] = "OpenCode" THEN "opencode" ELSE s[i]]

\* String.prototype.trim
RECURSIVE TrimStart(_)
TrimStart(s) == IF s # <<>> /\ Head(s) = " " THEN TrimStart(Tail(s)) ELSE s
RECURSIVE TrimEnd(_)
TrimEnd(s) ==
  IF s # <<>> /\ Last(s) = " " THEN TrimEnd(SubSeq(s, 1, Len(s) - 1)) ELSE s
Trim(s) == TrimEnd(TrimStart(s))

\* normalizeModelValue(value)
NormalizeModelValue(v) ==
  IF v = Undefined \/ v = <<>> THEN Undefined
  ELSE IF Len(Trim(v)) > 0 THEN Trim(v) ELSE Undefined

\* resolveOpenCodeModelForGroup(group, globalOpenCodeModel)
ResolveOpenCodeModelForGroup(g, globalOpenCodeModel) ==
  OrDefault(NormalizeModelValue(g), globalOpenCodeModel)

\* getSdkBackend()
GetSdkBackend(e) ==
  IF e.NANOCLAW_SDK_BACKEND # Undefined
     /\ ToLowerCase(e.NANOCLAW_SDK_BACKEND) = <<"opencode">>
  THEN "opencode" ELSE "claude"

\* createAdapter(backend): the adapter made, or "threw"
CreateAdapterKind(backend, e) ==
  LET selectedBackend == IF backend # None THEN backend ELSE GetSdkBackend(e)
  IN CASE selectedBackend = "opencode" -> "opencode"
       [] selectedBackend = "claude" -> "claude"
       [] OTHER -> "threw"

\* the environment the programs are started in
Launch(b, om, m, g, up) ==
  /\ ~launched
  /\ launched' = TRUE
  /\ env' = [NANOCLAW_SDK_BACKEND |-> b, NANOCLAW_OPENCODE_MODEL |-> om,
             NANOCLAW_MODEL |-> m]
  /\ groupModel' = g
  /\ serverUp' = up
  /\ UNCHANGED <<hostConfig, adapter, selection, serversStarted, clientCreated,
                 createOutcome>>

\* the host imports src/config.ts: SDK_BACKEND and OPENCODE_MODEL
LoadConfig ==
  /\ launched
  /\ hostConfig.state = "unloaded"
  /\ LET rawSdkBackend == OrDefault(env.NANOCLAW_SDK_BACKEND, <<"claude">>)
     IN hostConfig' =
          IF rawSdkBackend # <<"claude">> /\ rawSdkBackend # <<"opencode">>
          THEN [hostConfig EXCEPT !.state = "threw"]
          ELSE [state |-> "loaded", SDK_BACKEND |-> rawSdkBackend[1],
                OPENCODE_MODEL |->
                  OrDefault(env.NANOCLAW_OPENCODE_MODEL, DefaultModel)]
  /\ UNCHANGED <<env, groupModel, launched, adapter, selection, serverUp,
                 serversStarted, clientCreated, createOutcome>>

\* resolveGroupBackendSelection(group).openCodeModel
ResolveGroupBackendSelection ==
  /\ hostConfig.state = "loaded"
  /\ selection = Undefined
  /\ selection' = ResolveOpenCodeModelForGroup(groupModel, hostConfig.OPENCODE_MODEL)
  /\ UNCHANGED <<env, groupModel, launched, hostConfig, adapter, serverUp,
                 serversStarted, clientCreated, createOutcome>>

\* the container calls createAdapter(backend); backend None: no argument
CreateAdapter(backend) ==
  /\ launched
  /\ adapter.kind = None
  /\ adapter' = [kind |-> CreateAdapterKind(backend, env),
                 from |-> IF backend = None THEN "env" ELSE "argument"]
  /\ UNCHANGED <<env, groupModel, launched, hostConfig, selection, serverUp,
                 serversStarted, clientCreated, createOutcome>>

\* OpenCodeAdapter.createSession on a new adapter: ensureInitialized calls
\* createOpencodeServer (started: it did not throw) and createOpencodeClient,
\* then client.session.create answers with or without data
CreateSession(started, data) ==
  /\ adapter.kind = "opencode"
  /\ createOutcome = None
  /\ serversStarted' = serversStarted + 1
  /\ clientCreated' = started
  /\ createOutcome' = IF ~started THEN "server-start-threw"
                      ELSE IF data THEN "session"
                      ELSE "threw-failed-to-create-session"
  /\ UNCHANGED <<env, groupModel, launched, hostConfig, adapter, selection,
                 serverUp>>

notStartupVars == <<loopVars, textVars, abortVars, resumeVars, hostVars,
                    runnerVars, queryVars, backendVars, faultVars, toolVars, streamVars, staleVars, legacyVars, initVars>>

NextStartup ==
  \/ (\E b \in BackendValues, om \in OpenCodeModelValues, m \in ModelValues,
         g \in GroupModelValues, up \in BOOLEAN : Launch(b, om, m, g, up))
       /\ UNCHANGED notStartupVars
  \/ LoadConfig /\ UNCHANGED notStartupVars
  \/ ResolveGroupBackendSelection /\ UNCHANGED notStartupVars
  \/ (\E backend \in {None, "claude", "opencode", "invalid"} :
        CreateAdapter(backend)) /\ UNCHANGED notStartupVars
  \/ (\E started, data \in BOOLEAN : CreateSession(started, data))
       /\ UNCHANGED notStartupVars
SpecStartup == Init /\ [][NextStartup]_vars

(***************************************************************************)
(* mapAllowedToolsToOpenCode (lines 359-426).  A tool name is a sequence   *)
(* of pieces: the prefix 'mcp__' is one piece, a later '__' is one piece   *)
(* and '*' is one piece, so 'mcp__nanoclaw__*' is                          *)
(* <<"mcp__", "nanoclaw", "__", "*">>.  tools is the set of the keys of    *)
(* result.tools (every value is true), mcpServers is the array.            *)
(***************************************************************************)
GlobalWildcard == <<"mcp__", "*">>
AllowEntries ==
  {GlobalWildcard,
   <<"mcp__", "nanoclaw", "__", "*">>,
   <<"mcp__", "nanoclaw", "__", "send_message">>,
   <<"mcp__", "other", "__", "list">>,
   <<"Read">>, <<"Task">>, <<"TaskOutput">>, <<"TeamCreate">>, <<"Custom">>}

\* the lists of at most n entries
ToolLists(n) == UNION {[1..k -> AllowEntries] : k \in 0..n}

\* TOOL_NAME_MAP, lines 306-333
TOOL_NAME_MAP ==
  (<<"Bash">> :> <<"bash">>) @@ (<<"Read">> :> <<"read">>)
  @@ (<<"Write">> :> <<"write">>) @@ (<<"Edit">> :> <<"edit">>)
  @@ (<<"Glob">> :> <<"glob">>) @@ (<<"Grep">> :> <<"grep">>)
  @@ (<<"WebSearch">> :> <<"websearch">>) @@ (<<"WebFetch">> :> <<"webfetch">>)
  @@ (<<"Task">> :> <<"task">>) @@ (<<"TaskOutput">> :> <<"task">>)
  @@ (<<"TaskStop">> :> <<"task">>) @@ (<<"TeamCreate">> :> Null)
  @@ (<<"TeamDelete">> :> Null) @@ (<<"SendMessage">> :> Null)
  @@ (<<"TodoWrite">> :> <<"todo">>) @@ (<<"ToolSearch">> :> Null)
  @@ (<<"Skill">> :> <<"skill">>) @@ (<<"NotebookEdit">> :> <<"notebook">>)

\* tool.toLowerCase()
ToolToLowerCase(t) ==
  [i \in 1..Len(t) |-> IF t[i] = "Custom" THEN "custom" ELSE t[i]]

\* tool.startsWith('mcp__')
StartsWithMcp(t) == t # <<>> /\ t[1] = "mcp__"

\* tool.endsWith('__*'), for a name other than 'mcp__*'
EndsWithWildcard(t) == Len(t) >= 2 /\ t[Len(t) - 1] = "__" /\ t[Len(t)] = "*"

\* tool.slice(5, -3)
ServerOfWildcard(t) == SubSeq(t, 2, Len(t) - 2)

\* s.split('__')
RECURSIVE SplitParts(_, _)
SplitParts(s, part) ==
  IF s = <<>> THEN <<part>>
  ELSE IF Head(s) = "__" THEN <<part>> \o SplitParts(Tail(s), <<>>)
  ELSE SplitParts(Tail(s), Append(part, Head(s)))

\* a pattern that keeps the double underscore of the allow-list entry
WildcardPatternDoubleUnderscore(serverName) == serverName \o <<"__", "*">>

\* `${serverName}_*`
WildcardPattern(serverName) == serverName \o <<"_", "*">>

\* if (!result.mcpServers.includes(serverName)) result.mcpServers.push(serverName)
PushUnique(servers, serverName) ==
  IF \E i \in 1..Len(servers) : servers[i] = serverName
  THEN servers ELSE Append(servers, serverName)

\* the body of the for loop, lines 371-422
MapTool(res, tool) ==
  IF tool = GlobalWildcard
  THEN [res EXCEPT !.allowAllMcp = TRUE]
  ELSE IF StartsWithMcp(tool) /\ EndsWithWildcard(tool)
  THEN LET serverName == ServerOfWildcard(tool)
       IN IF serverName # <<>>
          THEN [res EXCEPT !.mcpServers = PushUnique(@, serverName),
                           !.tools = @ \cup {WildcardPattern(serverName)}]
          ELSE res
  ELSE IF StartsWithMcp(tool)
  THEN LET parts == SplitParts(Tail(tool), <<>>)
       IN IF Len(parts) >= 2
          THEN [res EXCEPT
                  !.mcpServers = IF parts[1] # <<>> THEN PushUnique(@, parts[1])
                                 ELSE @,
                  !.tools = @ \cup {parts[1] \o <<"_">>
                                      \o JoinWith(Tail(parts), "_")}]
          ELSE [res EXCEPT !.tools = @ \cup {ToolToLowerCase(tool)}]
  ELSE IF tool \in DOMAIN TOOL_NAME_MAP
  THEN IF TOOL_NAME_MAP[tool] # Null
       THEN [res EXCEPT !.tools = @ \cup {TOOL_NAME_MAP[tool]}]
       ELSE res
  ELSE [res EXCEPT !.tools = @ \cup {ToolToLowerCase(tool)}]

RECURSIVE MapTools(_, _)
MapTools(res, list) ==
  IF list = <<>> THEN res ELSE MapTools(MapTool(res, Head(list)), Tail(list))

\* mapAllowedToolsToOpenCode(allowedTools); an absent list returns like []
MapAllowedToolsToOpenCode(list) ==
  MapTools([called |-> TRUE, tools |-> {}, mcpServers |-> <<>>,
            allowAllMcp |-> FALSE], list)

\* one call, as lines 796 and 1082 make it
MapAllowedTools(list) ==
  /\ ~toolMapping.called
  /\ allowedTools' = list
  /\ toolMapping' = MapAllowedToolsToOpenCode(list)

notToolVars == <<loopVars, textVars, abortVars, resumeVars, hostVars,
                 runnerVars, queryVars, startupVars, backendVars, faultVars,
                 streamVars, staleVars, legacyVars, initVars>>

NextTools ==
  (\E list \in ToolLists(MaxTools) : MapAllowedTools(list))
    /\ UNCHANGED notToolVars
SpecTools == Init /\ [][NextTools]_vars

TypeOK ==
  /\ pc \in {"init", "prompted", "events", "aborting", "yieldedResult", "wait",
            "queryPrompted", "queryEvents", "done"}
  /\ turnCount \in 0..MaxTurns

(***************************************************************************)
(* Properties.                                                             *)
(***************************************************************************)
Results(ms) == SelectSeq(ms, LAMBDA m : m.type = "result")
TurnEnded == pc \in {"yieldedResult", "wait", "done"}
Occurs(x, sq) == \E i \in 1..Len(sq) : sq[i] = x

\* the generator resumes into a first or later poll() of waitForIpcMessage
PollBegins ==
  \/ pc = "wait"
  \/ pc = "yieldedResult" /\ ~closeRequested /\ pendingMessages = <<>>
WaitPollRuns == PollBegins /\ (WaitPoll \/ AfterResult)

\* C1: every turn yields exactly one result message between its prompt and
\* the next prompt (or the end), whatever events the backend sends.
C1_ExactlyOneResultPerTurn ==
  /\ Len(Results(out)) <= 1
  /\ TurnEnded => Len(Results(out)) = 1

\* C2: the prompt of turn n+1 is sent only after turn n's own-session
\* session.idle was observed and turn n's result was yielded.
C2_NextPromptOnlyAfterIdle ==
  [][(turnCount >= 1 /\ turnCount' = turnCount + 1)
       => (turnCompleted /\ Len(Results(out)) >= 1)]_vars

\* C3 (as claimed): a poll that sees both a pending message and the close
\* sentinel delivers the message as a turn first and defers the close.
C3_MessagesBeforeClose ==
  [][(WaitPollRuns /\ sentinel /\ DrainIpcInput(files) # <<>>)
       => (pc' = "prompted" /\ prompt' = JoinWith(DrainIpcInput(files), NL))]_vars

\* C3 (amended): a poll that sees both a pending message and the close
\* sentinel consumes the sentinel and does not drain: the message files stay
\* in the directory, no prompt is sent by that poll, and a between-turn poll
\* ends the loop.
C3_CloseBeforeMessages ==
  [][/\ (WaitPollRuns /\ sentinel /\ DrainIpcInput(files) # <<>>)
          => (pc' = "done" /\ ~sentinel' /\ files' = files /\ sent' = sent)
     /\ (PollIpcDuringQuery /\ sentinel /\ DrainIpcInput(files) # <<>>)
          => (closeRequested' /\ ~sentinel' /\ files' = files /\ sent' = sent
              /\ pendingMessages' = pendingMessages)]_vars
C3_Witness ==
  returnedAt = "close-received" /\ DrainIpcInput(files) # <<>> /\ ~sentinel

\* C4: when a session.error and a session.idle both arrive in one turn, the
\* turn's single result has an error subtype, not success.
C4_ErrorWinsOverIdle ==
  (TurnEnded /\ Occurs("session.error", seen) /\ Occurs("session.idle", seen))
    => /\ Len(Results(out)) = 1
       /\ \A i \in 1..Len(out) : out[i].type = "result" => out[i].subtype # "success"

\* C5: one call yields exactly one system/init message, on the first turn.
C5_ExactlyOneInit ==
  /\ initCount <= 1
  /\ pc \notin {"init", "prompted"} => initCount = 1

\* C6: for snapshot-only updates of one part, each extending the previous
\* one, the concatenation of the emitted text equals the latest snapshot.
C6_SnapshotsEmitOnlySuffix == partMode = "snapshot" => emitted = partText

\* C7: every terminal failure event of the session (error, timeout, abort)
\* ends the turn with a result whose subtype is that of the kind and whose
\* text is a prefix followed by the detail.
TerminalSubtype(t) ==
  CASE t = "session.error" -> "error"
    [] t = "session.timeout" -> "timeout"
    [] t = "session.aborted" -> "abort"
C7_TerminalEventYieldsResult ==
  \A i \in 1..Len(seen) :
    seen[i] \in TerminalTypes =>
      /\ pc # "events"
      /\ \E k \in 1..Len(out) :
           /\ out[k].type = "result"
           /\ out[k].subtype = TerminalSubtype(seen[i])
           /\ out[k].result # Undefined
           /\ Len(out[k].result) >= 2

\* C8: when a drain returns, none of the .json files it listed is left,
\* whatever they held, so a drain right after it returns nothing; files
\* that are not .json are not touched.
DrainRuns ==
  ~sentinel /\ (WaitPollRuns \/ PollIpcDuringQuery \/ StalePollIpc)
MessageNames(f) ==
  {n \in JsonNames : f[n].valid /\ f[n].type = "message" /\ f[n].text # <<>>}
Rank(n, S) == Cardinality({o \in S : o[1] < n[1]}) + 1
NameAt(k, S) == CHOOSE n \in S : Rank(n, S) = k
RECURSIVE JoinedUpTo(_, _)
JoinedUpTo(f, k) ==
  IF k = 1 THEN f[NameAt(1, MessageNames(f))].text
  ELSE JoinedUpTo(f, k - 1) \o <<NL>> \o f[NameAt(k, MessageNames(f))].text
ExpectedPrompt(f) == JoinedUpTo(f, Cardinality(MessageNames(f)))
C10_CloseEndsLoop ==
  [][(WaitPollRuns /\ sentinel)
       => (pc' = "done" /\ sent' = sent /\ turnCount' = turnCount /\ ~sentinel')]_vars
C10_Witness ==
  returnedAt = "close-received" /\ pc = "done" /\ ~sentinel /\ Len(sent) = turnCount

\* C11: once the abort signal is set, the event loop consumes no further
\* event of the session; the loop that has read the signal calls
\* client.session.abort before it yields the abort result; the abort result
\* is yielded once, it is the last message, and the generator has returned.
IsAbortResult(m) == m.type = "result" /\ m.subtype = "abort"
C12_ResumeWithMarkerForks ==
  (resumeAt \notin {Undefined, <<>>} /\ resumeOf # "none")
    => (resumeOf = "fork" /\ NewMessagesOf("original") = <<>>)

\* C13: a step that decodes a record moves the deadline to the time of the
\* step plus the timeout; the subprocess is stopped once, and only at the
\* moment the timeout has passed since the last decoded record (or since the
\* start, if none was decoded), so not at the original deadline when a
\* record was decoded before it.
C13_RecordMovesDeadline ==
  [][/\ (decoded' # decoded => deadline' = now + HostTimeout)
     /\ (kills' # kills
           => /\ kills = 0 /\ kills' = 1
              /\ now = lastRecordAt + HostTimeout
              /\ hostState = "running" /\ hostState' = "stopping")
     /\ (hostState = "running" /\ now' > now => now < lastRecordAt + HostTimeout)]_vars
C13_Witness ==
  /\ hostState = "stopping" /\ kills = 1
  /\ lastRecordAt > 0 /\ lastRecordAt < HostTimeout
  /\ now > HostTimeout

\* C14 as stated: no subprocess is still running after the timeout counted
\* from its start.
C14_CeilingFromStart == now > HostTimeout => hostState # "running"
\* C14 as amended: a running subprocess is never older than the timeout
\* counted from its start or from its last decoded record, whichever is later.
C14_CeilingFromLastRecord ==
  hostState = "running"
    => /\ deadline = lastRecordAt + HostTimeout
       /\ now <= lastRecordAt + HostTimeout
C14_Witness ==
  hostState = "running" /\ now > HostTimeout /\ lastRecordAt > 0 /\ procAlive

C16_TimeoutWithoutOutput ==
  /\ (decoded = <<>> => relayed = <<>> /\ callbacks = <<>>)
  /\ (decoded = <<>> /\ hostState = "running" => now <= HostTimeout)
  /\ (hostState = "resolved" /\ decoded = <<>> /\ kills > 0
       => /\ kills = 1
          /\ resolution.status = "error"
          /\ resolution.error = "timed out")
C16_Witness ==
  /\ hostState = "resolved" /\ decoded = <<>> /\ kills = 1
  /\ emittedItems # <<>> /\ now >= HostTimeout

\* C17: the streaming callback is invoked with the decoded records, each
\* once and in the order of decoding, whatever their status; when the
\* controller resolves every decoded record has been relayed.
C17_RelayedInOrder ==
  /\ relayed \o callbacks = decoded
  /\ (hostState = "resolved" => relayed = decoded)
C17_Witness ==
  /\ hostState = "resolved" /\ Len(relayed) = 2
  /\ relayed[1].status = "timeout" /\ relayed[2].status = "error"

\* pieces of a framed record up to the newline that ends its JSON line
RecordEnd(it) == Len(StartMarker) + 1 + Len(Stringify(it.rec)) + 1
\* the records among items whose JSON line lies within the first n pieces
RECURSIVE CompleteRecords(_, _)
CompleteRecords(items, n) ==
  IF items = <<>> THEN <<>>
  ELSE (IF Head(items).kind = "record" /\ RecordEnd(Head(items)) <= n
        THEN <<Head(items).rec>> ELSE <<>>)
       \o CompleteRecords(Tail(items), n - Len(ItemText(Head(items))))

\* C19: whatever the chunks the controller has read stdout in and whatever
\* log lines stand around the records, the decoded records are the records
\* written whose JSON line has been read to its end, in the order written.
C19_DecodedWhateverTheChunks ==
  decoded = CompleteRecords(emittedItems, readCount)
C19_Witness ==
  /\ splitDecoded
  /\ Len(emittedItems) = 2
  /\ emittedItems[1] = NoiseItem
  /\ Len(decoded) = 1 /\ stdout = <<>>

\* C20: a frame whose JSON does not parse yields no record: nothing of it is
\* decoded, queued for the callback or relayed, it does not move the
\* deadline or the session id, and once stdout is read to its end every
\* well-formed record written, before or after the frame, is decoded.
WrittenRecords ==
  [i \in 1..Len(SelectSeq(emittedItems, LAMBDA it : it.kind = "record")) |->
     SelectSeq(emittedItems, LAMBDA it : it.kind = "record")[i].rec]
C20_BadJsonDropsOneRecord ==
  /\ \A i \in 1..Len(decoded) : decoded[i] \in HostRecords
  /\ Len(decoded) <= Len(WrittenRecords)
  /\ (WrittenRecords = <<>>
       => /\ callbacks = <<>> /\ relayed = <<>>
          /\ deadline = HostTimeout /\ lastSessionId = None
          /\ (hostState = "resolved" => resolution.status = "error"))
  /\ (stdout = <<>> => decoded = WrittenRecords)
C20_Witness ==
  /\ Len(emittedItems) = 2
  /\ emittedItems[1] = BadItem
  /\ emittedItems[2].kind = "record"
  /\ decoded = <<emittedItems[2].rec>> /\ relayed = decoded

\* the records a runner owes for the messages ms, sid being the session id
\* it holds before them
RECURSIVE OwedRecords(_, _)
OwedRecords(ms, sid) ==
  IF ms = <<>> THEN <<>>
  ELSE IF Head(ms).type = "result"
  THEN <<[status |-> StatusOf(Head(ms).subtype), result |-> ResultOf(Head(ms)),
          newSessionId |-> sid]>>
       \o OwedRecords(Tail(ms), sid)
  ELSE OwedRecords(Tail(ms),
                   IF Head(ms).type = "system" /\ Head(ms).subtype = "init"
                   THEN Head(ms).session_id ELSE sid)

\* C18: the records the runner has written are one for each result message
\* it has taken from the adapter, in the order of the messages, none for a
\* message of another type, and stdout holds exactly their frames.
C18_OneRecordPerResult ==
  /\ WrittenRecords = OwedRecords(yielded, "s1")
  /\ Len(WrittenRecords) = Len(Results(yielded))
  /\ Len(emittedItems) = Len(WrittenRecords)
  /\ FeedPieces([expect |-> FALSE, buf |-> <<>>, recs |-> <<>>], stdout).recs
       = WrittenRecords
C18_Witness ==
  /\ Len(yielded) = 3
  /\ yielded[1].type = "system" /\ yielded[1].subtype = "error"
  /\ yielded[2].type = "result" /\ yielded[2].subtype = "success"
  /\ yielded[3].type = "result" /\ yielded[3].subtype = "timeout"
  /\ Len(WrittenRecords) = 2
  /\ WrittenRecords[1].status = "success" /\ WrittenRecords[2].status = "timeout"

\* C21: for every ContainerOutput (any status, a result string or null,
\* newSessionId set or absent) the text writeOutput makes of it decodes to
\* one record equal to it: the decoded records are the first of the encoded
\* ones, and all of them once the text is read to its end.
C21_EncodeDecodeRoundTrip ==
  /\ Len(decoded) <= Len(WrittenRecords)
  /\ \A i \in 1..Len(decoded) : decoded[i] = WrittenRecords[i]
  /\ (stdout = <<>> => Len(decoded) = Len(emittedItems))
C21_Witness ==
  /\ hostState = "resolved" /\ splitDecoded
  /\ Len(emittedItems) = 1
  /\ decoded = <<[status |-> "error", result |-> <<"a", NL, "b">>,
                  newSessionId |-> None]>>
  /\ relayed = decoded

\* C22: when a turn ends on the session's own session.idle, the result the
\* turn yields is a success whose result text is the concatenation, in
\* arrival order, of the text yielded since the turn's prompt was sent.
C22_ResultCarriesTurnText ==
  (pc = "yieldedResult" /\ seen # <<>> /\ Last(seen) = "session.idle")
    => /\ Last(out).type = "result" /\ Last(out).subtype = "success"
       /\ Last(out).result = ContentOf(out)

\* C23: a runQuery call that ends on the session's own session.idle has
\* yielded exactly one result message, and that result is the last message
\* it yielded.
C23_QueryEndsWithOneResult ==
  (pc = "done" /\ returnedAt = "query-idle")
    => /\ Len(Results(out)) = 1
       /\ Last(out).type = "result"

\* C24: a client.session.abort call that fails does not end the generator
\* with the failure: abortSession returns, the abort result is yielded as
\* the last message and the generator returns normally.
C24_AbortFailureSwallowed ==
  abortFailed
    => /\ pc = "done" /\ returnedAt = "aborted"
       /\ out # <<>> /\ Last(out) = AbortResult
C24_Witness ==
  /\ abortFailed /\ abortAttempts = 1
  /\ pc = "done" /\ Last(out) = AbortResult
  /\ turnCount = 2

\* C25: when NANOCLAW_SDK_BACKEND is set to a value that is neither of the
\* two backend names, the host configuration does not load and the adapter
\* factory called without an argument does not return an adapter.
InvalidBackend(b) == b \notin {Undefined, <<>>, <<"claude">>, <<"opencode">>}
C25_InvalidBackendIsFatal ==
  (launched /\ InvalidBackend(env.NANOCLAW_SDK_BACKEND))
    => /\ hostConfig.state # "loaded"
       /\ (adapter.from = "env" => adapter.kind = "threw")

\* C26: a createSession call made while the OpenCode server of the
\* entrypoint does not answer ends with the error that names the server URL
\* and the entrypoint; the adapter has created no client and started no
\* server of its own.
C26_UnreachableServerIsFatal ==
  (createOutcome # None /\ ~serverUp)
    => /\ createOutcome = "threw-server-unavailable"
       /\ ~clientCreated
       /\ serversStarted = 0

\* C27: the model resolved for a group is the first value that is set and
\* not blank, trimmed, among the group's openCodeModel,
\* NANOCLAW_OPENCODE_MODEL, NANOCLAW_MODEL and the default; the host's
\* OPENCODE_MODEL is the first such value among the last three.
IsBlank(v) == v = Undefined \/ \A i \in 1..Len(v) : v[i] = " "
RECURSIVE FirstNonBlank(_)
FirstNonBlank(vs) ==
  IF Len(vs) = 1 \/ ~IsBlank(Head(vs)) THEN Trim(Head(vs))
  ELSE FirstNonBlank(Tail(vs))
C27_ModelPrecedence ==
  /\ (selection # Undefined
       => selection = FirstNonBlank(<<groupModel, env.NANOCLAW_OPENCODE_MODEL,
                                      env.NANOCLAW_MODEL, DefaultModel>>))
  /\ (hostConfig.state = "loaded"
       => hostConfig.OPENCODE_MODEL =
            FirstNonBlank(<<env.NANOCLAW_OPENCODE_MODEL, env.NANOCLAW_MODEL,
                            DefaultModel>>))

\* C28: every message a drain has taken out of the directory reaches a
\* prompt: the messages queued during a turn leave the queue only as the
\* next prompt, and the generator does not end while messages are queued, so
\* not when the close sentinel is seen later in the same turn either; a
\* poller whose queue is never read again drains nothing.
C28_DrainedMessagesReachAPrompt ==
  [][/\ (pc' = "done" => pendingMessages' = <<>>)
     /\ (pendingMessages # <<>> /\ pendingMessages' # pendingMessages
           => \/ /\ Len(pendingMessages') > Len(pendingMessages)
                 /\ SubSeq(pendingMessages', 1, Len(pendingMessages))
                      = pendingMessages
              \/ /\ pendingMessages' = <<>>
                 /\ sent' = Append(sent, JoinWith(pendingMessages, NL)))
     /\ (StalePollIpc /\ ~sentinel => DrainIpcInput(files) = <<>>)]_vars

\* C29: a close sentinel written while the loop runs is taken out of the
\* directory only by the check that decides whether another turn starts:
\* the step that removes it either ends the generator or sets the
\* closeRequested that the loop reads when the current turn has ended.
C29_CloseSeenByTheLoop ==
  [][(pc # "init" /\ sentinel /\ ~sentinel')
       => \/ pc' = "done"
          \/ closeRequested' /\ pc' \in {"events", "yieldedResult"}]_vars

\* C30: at most one reader of the mailbox is active: when the event loop of
\* a turn has ended, whether by idle, by abort or by the end of the stream,
\* the poller of that turn is stopped, and no poller of an earlier turn is
\* left running.
Readers ==
  (IF ipcPolling THEN 1 ELSE 0) + stalePollers + (IF pc = "wait" THEN 1 ELSE 0)
C30_SingleMailboxReader ==
  /\ Readers <= 1
  /\ (pc \in {"yieldedResult", "wait", "aborting", "done"}
       => ~ipcPolling /\ stalePollers = 0)

\* C31: no event the backend emits for a prompt of the session is emitted
\* while no stream is subscribed, and when the backend has answered every
\* prompt to the end while the loop waits for an event, the session.idle is
\* in the stream: the turn ends.
C31_NoTurnEventLost ==
  /\ lost = <<>>
  /\ (pc = "events" /\ served = Len(sent)) => Occurs(OwnIdle, delivered)

\* C32: once the abort signal is set no prompt is sent to the backend,
\* whether the loop is in a turn or waits on the mailbox between two turns,
\* and a generator that ends after the signal was set, its stream
\* subscribed, has yielded the abort result as its last message.
C32_AbortStopsPrompts ==
  [][/\ (abortSignal /\ pc # "init" => sent' = sent)
     /\ (abortSignal /\ pc \notin {"prompted", "done"} /\ pc' = "done"
           => out' # <<>> /\ IsAbortResult(Last(out')))]_vars

\* C33: no prompt is sent while a turn runs; a drain made while the turn
\* runs puts the texts it returns at the end of the turn's queue, in the
\* order of the drain; and when the turn's result has been taken with texts
\* in the queue, the generator sends them, joined by newline, as the next
\* prompt, without reading the mailbox.
C33_HeldMessagesAreNextPrompt ==
  [][/\ (pc \in {"prompted", "events"} => sent' = sent)
     /\ (pc = "events" /\ ~sentinel /\ (PollIpcDuringQuery \/ StalePollIpc)
           => pendingMessages' = pendingMessages \o DrainIpcInput(files))
     /\ (pc = "yieldedResult" /\ pendingMessages # <<>> /\ pc' # pc
           => /\ pc' = "prompted"
              /\ sent' = Append(sent, JoinWith(pendingMessages, NL))
              /\ files' = files /\ sentinel' = sentinel)]_vars

\* C34: a text that a drain returns, to the queue of the running turn or
\* as the next prompt, is the text of a message file that is no longer in
\* the directory when the drain returns, whichever unlinkSync calls fail;
\* a file that could not be deleted is not delivered.
NewlyQueued ==
  IF Len(pendingMessages') > Len(pendingMessages)
  THEN {pendingMessages'[i] : i \in Len(pendingMessages) + 1..Len(pendingMessages')}
  ELSE {}
NewMailboxPrompt ==
  IF sent' # sent /\ promptFrom' = "mailbox"
  THEN {<<prompt'[i]>> : i \in {j \in 1..Len(prompt') : prompt'[j] # NL}}
  ELSE {}
C34_ReturnedOnlyIfDeleted ==
  [][\A n \in JsonNames :
       TextOfName(n) \in NewlyQueued \cup NewMailboxPrompt
         => /\ FilePushes(files[n])
            /\ files'[n] = Absent]_vars
C34_Witness ==
  /\ unlinkThrew /\ writes = 2 /\ stalePollers = 0
  /\ pc = "events" /\ turnCount = 1
  /\ pendingMessages = <<TextOfName(<<2, "json">>), TextOfName(<<1, "json">>)>>
  /\ \A n \in JsonNames : files[n] = Absent

\* C37 (as claimed): the tools the call enables are those the entries of
\* the list map to: 'mcp__S__*' to 'S_*', 'mcp__S__T' to 'S_T', a standard
\* name to its OpenCode name, 'mcp__*' and a name without an OpenCode
\* equivalent to nothing; allowAllMcp is set by 'mcp__*' alone; and a list
\* with the same entries in another order or number gives the same result.
EntriesOf(list) == {list[i] : i \in 1..Len(list)}
ExpectedTools(entry) ==
  CASE entry = <<"mcp__", "*">> -> {}
    [] entry = <<"mcp__", "nanoclaw", "__", "*">> -> {<<"nanoclaw", "_", "*">>}
    [] entry = <<"mcp__", "nanoclaw", "__", "send_message">>
         -> {<<"nanoclaw", "_", "send_message">>}
    [] entry = <<"mcp__", "other", "__", "list">> -> {<<"other", "_", "list">>}
    [] entry = <<"Read">> -> {<<"read">>}
    [] entry = <<"Task">> -> {<<"task">>}
    [] entry = <<"TaskOutput">> -> {<<"task">>}
    [] entry = <<"TeamCreate">> -> {}
    [] entry = <<"Custom">> -> {<<"custom">>}
EnablesWhatIsMapped ==
  /\ toolMapping.tools = UNION {ExpectedTools(e) : e \in EntriesOf(allowedTools)}
  /\ toolMapping.allowAllMcp = (<<"mcp__", "*">> \in EntriesOf(allowedTools))
SameEntries(list) ==
  {l \in UNION {[1..k -> EntriesOf(list)] : k \in 0..MaxTools} :
     EntriesOf(l) = EntriesOf(list)}
C37_ToolMapping ==
  toolMapping.called
    => /\ EnablesWhatIsMapped
       /\ \A l \in SameEntries(allowedTools) :
            MapAllowedToolsToOpenCode(l) = toolMapping

\* C37 (amended): as claimed, except that of the result only tools and
\* allowAllMcp are the same for every order and repetition of the entries;
\* mcpServers holds the same server names, each once, in the order in which
\* the list first names them.
C37_ToolMappingUpToServerOrder ==
  toolMapping.called
    => /\ EnablesWhatIsMapped
       /\ \A l \in SameEntries(allowedTools) :
            /\ MapAllowedToolsToOpenCode(l).tools = toolMapping.tools
            /\ MapAllowedToolsToOpenCode(l).allowAllMcp = toolMapping.allowAllMcp
            /\ EntriesOf(MapAllowedToolsToOpenCode(l).mcpServers)
                 = EntriesOf(toolMapping.mcpServers)
       /\ Cardinality(EntriesOf(toolMapping.mcpServers))
            = Len(toolMapping.mcpServers)
C37_Witness ==
  /\ toolMapping.called
  /\ allowedTools = <<<<"mcp__", "other", "__", "list">>,
                      <<"mcp__", "nanoclaw", "__", "*">>,
                      <<"mcp__", "other", "__", "list">>>>
  /\ toolMapping.tools = {<<"other", "_", "list">>, <<"nanoclaw", "_", "*">>}
  /\ toolMapping.mcpServers = <<<<"other">>, <<"nanoclaw">>>>

\* C35 (as claimed): when the loop takes an event that identifies another
\* session, by properties.sessionID or, when that is absent, by
\* properties.info.id, it yields nothing, leaves the last-message id alone
\* and the turn goes on.
IdentifiesOtherSession(e) ==
  \/ e.sessionID # None /\ e.sessionID # Own
  \/ e.sessionID = None /\ e.infoId # None /\ e.infoId # Own
TurnGoesOn ==
  /\ out' = out
  /\ lastMessageId' = lastMessageId
  /\ pc' = pc /\ turnCompleted' = turnCompleted /\ completed' = completed
  /\ seen' = seen /\ ipcPolling' = ipcPolling
C35_ForeignEventsIgnored ==
  [][\A e \in StreamEvents :
       (IdentifiesOtherSession(e) /\ (TakeLoopEvent(e) \/ TakeQueryEvent(e)))
         => TurnGoesOn]_vars

\* C35 (amended): the same while the abort signal is not set; once it is
\* set, the next event the loop takes, of whichever session, makes it abort.
C35_ForeignEventsIgnoredUnlessAborted ==
  [][\A e \in StreamEvents :
       (IdentifiesOtherSession(e) /\ (TakeLoopEvent(e) \/ TakeQueryEvent(e)))
         => IF abortSignal THEN pc' \in {"aborting", "done"} ELSE TurnGoesOn]_vars
C35_Witness ==
  /\ lastEvent = [BaseEvent EXCEPT !.type = "session.idle", !.sessionID = Other]
  /\ pc = "events" /\ ~abortSignal /\ ~turnCompleted
  /\ turnCount = 2 /\ out = <<>> /\ ipcPolling

\* C36: the step that starts the loop leaves no close sentinel, whether or
\* not one was there, sends the initial prompt and requests no close; a
\* later step ends the loop on a close, or notes a close request, only when
\* the sentinel is there before that step, so only after it was written
\* again.
C36_StaleCloseHasNoEffect ==
  [][/\ (pc = "init" /\ pc' # "init"
           => /\ ~sentinel' /\ ~closeRequested'
              /\ pc' = "prompted" /\ sent' = <<InitialPrompt>>)
     /\ ((returnedAt' = "close-received" /\ returnedAt # "close-received")
           => sentinel /\ pc # "init")
     /\ ((closeRequested' /\ ~closeRequested) => sentinel /\ pc # "init")
     /\ ((returnedAt' = "close-during-turn" /\ returnedAt # "close-during-turn")
           => closeRequested)]_vars
C36_Witness ==
  /\ removedStale /\ ~sentinel
  /\ pc = "wait" /\ turnCount = 2
  /\ sent = <<InitialPrompt, <<"first">>>>
  /\ returnedAt = None

\* C38: a controller called without a streaming callback that has decoded
\* a record resolves with the last decoded record itself, its status (also
\* a timeout status), result and newSessionId unchanged, and invokes no
\* callback.
C38_LegacyResolvesWithLastRecord ==
  (hostState = "resolved" /\ ~onOutput /\ decoded # <<>>)
    => /\ resolution.status = Last(decoded).status
       /\ resolution.result = Last(decoded).result
       /\ resolution.newSessionId = Last(decoded).newSessionId
       /\ resolution.error = None
       /\ relayed = <<>> /\ callbacks = <<>>
C38_Witness ==
  /\ hostState = "resolved" /\ ~onOutput
  /\ Len(decoded) = 2
  /\ decoded[1].status = "success" /\ decoded[2].status = "timeout"
  /\ decoded[1].result # decoded[2].result
  /\ resolution.status = "timeout"

\* C39: between two disposals (and before the first) an adapter instance
\* calls createOpencodeServer at most once, whatever methods are called
\* while the first initialization is still pending.
C39_AtMostOneServerStart ==
  startedSinceDispose <= 1

====
